---- MODULE Spec2Model ----
(***************************************************************************)
(* Model of the sample RAG application (backend/src/fileProcessor.ts,      *)
(* backend/src/pgClient.ts with the RAG service, backend/src/index.ts).    *)
(*                                                                         *)
(* Texts are sequences of one-character strings.  The alphabet keeps one   *)
(* representative of every character class the code distinguishes: a       *)
(* letter, a sentence terminator, a blank and a line feed.                 *)
(***************************************************************************)
EXTENDS Integers, Sequences, FiniteSets, TLC

----------------------------------------------------------------------------
(* Bounds of the model *)

MaxTextLen == 6
MaxChunkSize == 4
MaxOverlap == 2
MaxSerial == 2
MaxLimit == 2
MaxChunks == 2
MaxStored == 2
MaxPad == 2
MaxParagraphs == 3
MaxDocumentLen == 120
MaxStarts == 2
MaxFileLen == 3
MaxAsks == 2
MaxLoads == 2

----------------------------------------------------------------------------
(* Characters and strings *)

LF == "\n"
SP == " "
Letter == "a"
Stop == "."

Alphabet == {Letter, Stop, SP, LF}

\* \s of the regular expressions and the characters String.prototype.trim removes
IsSpace(c) == c \in {SP, LF}

\* the character class [.!?...] of splitIntoSentences
IsTerminator(c) == c = Stop

Min(a, b) == IF a <= b THEN a ELSE b
Max(a, b) == IF a >= b THEN a ELSE b

\* String.prototype.substring(from) for 0 <= from (0-based index)
Substring(s, from) == SubSeq(s, Min(from, Len(s)) + 1, Len(s))

\* String.prototype.substring(start, end) with 0 <= start <= end
SubstringRange(s, start, end) == SubSeq(s, Min(start, Len(s)) + 1, Min(end, Len(s)))

RECURSIVE TrimStart(_)
TrimStart(s) ==
  IF s # <<>> /\ IsSpace(Head(s)) THEN TrimStart(Tail(s)) ELSE s

RECURSIVE TrimEnd(_)
TrimEnd(s) ==
  IF s # <<>> /\ IsSpace(s[Len(s)]) THEN TrimEnd(SubSeq(s, 1, Len(s) - 1)) ELSE s

\* String.prototype.trim
Trim(s) == TrimEnd(TrimStart(s))

\* Array.prototype.join('') of a sequence of strings
RECURSIVE JoinAll(_)
JoinAll(ss) == IF ss = <<>> THEN <<>> ELSE Head(ss) \o JoinAll(Tail(ss))

\* the strings over Alphabet of length at most n
StringsUpTo(n) == UNION {[1..k -> Alphabet] : k \in 0..n}

----------------------------------------------------------------------------
(* fileProcessor.ts: chunkText *)

\* end (1-based, inclusive) of the maximal run of characters satisfying the
\* class that starts at position i; i - 1 when s[i] is not in the class
SpaceRunEnd(s, i) ==
  CHOOSE e \in (i - 1)..Len(s) :
    /\ \A k \in i..e : IsSpace(s[k])
    /\ e < Len(s) => ~IsSpace(s[e + 1])

\* the first position from i on that holds a newline, Len(s) + 1 when none does
NextNewline(s, i) ==
  IF \E j \in i..Len(s) : s[j] = LF
  THEN CHOOSE j \in i..Len(s) : s[j] = LF /\ \A k \in i..(j - 1) : s[k] # LF
  ELSE Len(s) + 1

\* text.split(/\n\s*\n/): the pieces between the leftmost, greedy matches.
\* start is the first position of the current piece, i the scan position.
RECURSIVE SplitBlankLines(_, _, _)
SplitBlankLines(s, start, i) ==
  LET n == NextNewline(s, i)
  IN IF n > Len(s) THEN << SubSeq(s, start, Len(s)) >>
     ELSE LET e == SpaceRunEnd(s, n + 1)
              lfs == {j \in (n + 1)..e : s[j] = LF}
          IN IF lfs = {} THEN SplitBlankLines(s, start, n + 1)
             ELSE LET last == CHOOSE j \in lfs : \A k \in lfs : k <= j
                  IN << SubSeq(s, start, n - 1) >> \o SplitBlankLines(s, last + 1, last + 1)

\* text.split(/\n\s*\n/).filter(p => p.trim().length > 0)
Paragraphs(text) ==
  SelectSeq(SplitBlankLines(text, 1, 1), LAMBDA p : Len(Trim(p)) > 0)

NonTermRunEnd(s, i) ==
  CHOOSE e \in (i - 1)..Len(s) :
    /\ \A k \in i..e : ~IsTerminator(s[k])
    /\ e < Len(s) => IsTerminator(s[e + 1])

TermRunEnd(s, i) ==
  CHOOSE e \in (i - 1)..Len(s) :
    /\ \A k \in i..e : IsTerminator(s[k])
    /\ e < Len(s) => ~IsTerminator(s[e + 1])

\* text.match(/[^.!?]+[.!?]+/g) || []: the successive leftmost matches from i
RECURSIVE SentenceMatches(_, _)
SentenceMatches(s, i) ==
  IF i > Len(s) THEN <<>>
  ELSE IF IsTerminator(s[i]) THEN SentenceMatches(s, i + 1)
  ELSE LET e == NonTermRunEnd(s, i)
       IN IF e = Len(s) THEN <<>>
          ELSE LET t == TermRunEnd(s, e + 1)
               IN << SubSeq(s, i, t) >> \o SentenceMatches(s, t + 1)

splitIntoSentences(text) ==
  LET matches == SentenceMatches(text, 1)
      matchedLength == Len(JoinAll(matches))
      remaining == Trim(Substring(text, matchedLength))
      sentences == IF matchedLength < Len(text) /\ remaining # <<>>
                   THEN Append(matches, remaining)
                   ELSE matches
      trimmed == [k \in 1..Len(sentences) |-> Trim(sentences[k])]
  IN SelectSeq(trimmed, LAMBDA x : Len(x) > 0)

\* PackSentences with the joining blank left out of the size test
RECURSIVE PackSentences_NoJoinInTest(_, _, _, _, _)
PackSentences_NoJoinInTest(sentences, k, chunks, sentenceChunk, chunkSize) ==
  IF k > Len(sentences) THEN [chunks |-> chunks, sentenceChunk |-> sentenceChunk]
  ELSE LET sentence == sentences[k]
       IN IF Len(sentenceChunk \o sentence) <= chunkSize
          THEN PackSentences_NoJoinInTest(sentences, k + 1, chunks,
                 IF sentenceChunk # <<>> THEN sentenceChunk \o <<SP>> \o sentence
                                         ELSE sentence,
                 chunkSize)
          ELSE PackSentences_NoJoinInTest(sentences, k + 1,
                 IF Trim(sentenceChunk) # <<>> THEN Append(chunks, Trim(sentenceChunk))
                                               ELSE chunks,
                 sentence, chunkSize)

\* the inner loop of chunkText over the sentences of one long paragraph
RECURSIVE PackSentences(_, _, _, _, _)
PackSentences(sentences, k, chunks, sentenceChunk, chunkSize) ==
  IF k > Len(sentences) THEN [chunks |-> chunks, sentenceChunk |-> sentenceChunk]
  ELSE LET sentence == sentences[k]
       IN IF Len(sentenceChunk \o <<SP>> \o sentence) <= chunkSize
          THEN PackSentences(sentences, k + 1, chunks,
                 IF sentenceChunk # <<>> THEN sentenceChunk \o <<SP>> \o sentence
                                         ELSE sentence,
                 chunkSize)
          ELSE PackSentences(sentences, k + 1,
                 IF Trim(sentenceChunk) # <<>> THEN Append(chunks, Trim(sentenceChunk))
                                               ELSE chunks,
                 sentence, chunkSize)

\* PackParagraphs with what is left of the sentences of a long paragraph
\* pushed as a chunk of its own
RECURSIVE PackParagraphs_FlushResidual(_, _, _, _, _)
PackParagraphs_FlushResidual(paragraphs, k, chunks, currentChunk, chunkSize) ==
  IF k > Len(paragraphs)
  THEN IF Trim(currentChunk) # <<>> THEN Append(chunks, Trim(currentChunk)) ELSE chunks
  ELSE LET trimmedParagraph == Trim(paragraphs[k])
       IN IF Len(currentChunk \o <<LF, LF>> \o trimmedParagraph) <= chunkSize
          THEN PackParagraphs_FlushResidual(paragraphs, k + 1, chunks,
                 IF currentChunk # <<>> THEN currentChunk \o <<LF, LF>> \o trimmedParagraph
                                        ELSE trimmedParagraph,
                 chunkSize)
          ELSE LET flushed == IF Trim(currentChunk) # <<>>
                              THEN Append(chunks, Trim(currentChunk))
                              ELSE chunks
               IN IF Len(trimmedParagraph) > chunkSize
                  THEN LET r == PackSentences(splitIntoSentences(trimmedParagraph), 1,
                                              flushed, <<>>, chunkSize)
                       IN PackParagraphs_FlushResidual(paragraphs, k + 1,
                            IF Trim(r.sentenceChunk) # <<>>
                            THEN Append(r.chunks, Trim(r.sentenceChunk)) ELSE r.chunks,
                            <<>>, chunkSize)
                  ELSE PackParagraphs_FlushResidual(paragraphs, k + 1, flushed,
                                                    trimmedParagraph, chunkSize)

\* the loop of chunkText over the paragraphs
RECURSIVE PackParagraphs(_, _, _, _, _)
PackParagraphs(paragraphs, k, chunks, currentChunk, chunkSize) ==
  IF k > Len(paragraphs)
  THEN IF Trim(currentChunk) # <<>> THEN Append(chunks, Trim(currentChunk)) ELSE chunks
  ELSE LET trimmedParagraph == Trim(paragraphs[k])
       IN IF Len(currentChunk \o <<LF, LF>> \o trimmedParagraph) <= chunkSize
          THEN PackParagraphs(paragraphs, k + 1, chunks,
                 IF currentChunk # <<>> THEN currentChunk \o <<LF, LF>> \o trimmedParagraph
                                        ELSE trimmedParagraph,
                 chunkSize)
          ELSE LET flushed == IF Trim(currentChunk) # <<>>
                              THEN Append(chunks, Trim(currentChunk))
                              ELSE chunks
               IN IF Len(trimmedParagraph) > chunkSize
                  THEN LET r == PackSentences(splitIntoSentences(trimmedParagraph), 1,
                                              flushed, <<>>, chunkSize)
                       IN PackParagraphs(paragraphs, k + 1, r.chunks,
                                         Trim(r.sentenceChunk), chunkSize)
                  ELSE PackParagraphs(paragraphs, k + 1, flushed, trimmedParagraph, chunkSize)

\* PreOverlapChunks with a text that fits one chunk returned as it is
PreOverlapChunks_ShortTextWhole(text, chunkSize) ==
  IF text = <<>> THEN <<>>
  ELSE IF Len(text) <= chunkSize THEN << text >>
  ELSE PackParagraphs(Paragraphs(text), 1, <<>>, <<>>, chunkSize)

\* the chunks before the overlap step (the array chunks of chunkText)
PreOverlapChunks(text, chunkSize) ==
  IF text = <<>> \/ Len(Trim(text)) = 0 THEN <<>>
  ELSE PackParagraphs(Paragraphs(text), 1, <<>>, <<>>, chunkSize)

\* addOverlapToChunks taking the overlap from the start of the previous chunk
addOverlapToChunks_FromStart(chunks, overlapSize) ==
  [i \in 1..Len(chunks) |->
     IF i > 1
     THEN LET prevChunk == chunks[i - 1]
              overlap == SubSeq(prevChunk, 1, Min(overlapSize, Len(prevChunk)))
          IN overlap \o <<LF, LF>> \o chunks[i]
     ELSE chunks[i]]

RECURSIVE Compounded(_, _, _)
\* chunk i with the overlap taken from chunk i - 1 as already overlapped
Compounded(chunks, i, overlapSize) ==
  IF i = 1 THEN chunks[1]
  ELSE LET prevChunk == Compounded(chunks, i - 1, overlapSize)
           overlap == Substring(prevChunk, Max(0, Len(prevChunk) - overlapSize))
       IN overlap \o <<LF, LF>> \o chunks[i]

\* addOverlapToChunks reading the previous chunk from the array being built
addOverlapToChunks_Compounding(chunks, overlapSize) ==
  [i \in 1..Len(chunks) |-> Compounded(chunks, i, overlapSize)]

addOverlapToChunks(chunks, overlapSize) ==
  [i \in 1..Len(chunks) |->
     IF i > 1
     THEN LET prevChunk == chunks[i - 1]
              overlap == Substring(prevChunk, Max(0, Len(prevChunk) - overlapSize))
          IN overlap \o <<LF, LF>> \o chunks[i]
     ELSE chunks[i]]

\* FinalChunks with the overlap step skipped for two chunks
FinalChunks_NeedsThree(chunks, overlapSize) ==
  IF overlapSize > 0 /\ Len(chunks) > 2
  THEN addOverlapToChunks(chunks, overlapSize)
  ELSE SelectSeq(chunks, LAMBDA c : Len(Trim(c)) > 0)

\* the last step of chunkText, applied to the pre-overlap chunks
FinalChunks(chunks, overlapSize) ==
  IF overlapSize > 0 /\ Len(chunks) > 1
  THEN addOverlapToChunks(chunks, overlapSize)
  ELSE SelectSeq(chunks, LAMBDA c : Len(Trim(c)) > 0)

chunkText(text, chunkSize, overlapSize) ==
  FinalChunks(PreOverlapChunks(text, chunkSize), overlapSize)

----------------------------------------------------------------------------
(* State *)

VARIABLES
  \* one call of chunkText
  text,          \* the argument text
  chunkSize,     \* the argument chunkSize
  overlapSize,   \* the argument overlapSize
  chunks,        \* the local array chunks (before the overlap step)
  finalChunks,   \* the returned array
  chunkPc,       \* "call" before the call, "returned" after it
  \* the backend
  documents,     \* the rows of the table documents
  nextSerial,    \* the next value of the sequence behind documents.id
  poolOut,       \* connections checked out of the pool
  req,           \* the request being handled and the position of its handler
  calls,         \* calls the request has made to the external services
  resp,          \* the HTTP response of the request
  \* the frontend: the state of its React components and their requests
  ragChat,           \* RAGChat
  documentManager,   \* DocumentManager
  fileUpload         \* FileUpload

chunkVars == << text, chunkSize, overlapSize, chunks, finalChunks, chunkPc >>
serverVars == << documents, nextSerial, poolOut, req, calls, resp >>
clientVars == << ragChat, documentManager, fileUpload >>
vars == << text, chunkSize, overlapSize, chunks, finalChunks, chunkPc,
           documents, nextSerial, poolOut, req, calls, resp,
           ragChat, documentManager, fileUpload >>

----------------------------------------------------------------------------
(* pgClient.ts: the document store and the embedding service *)

\* Embeddings are directions in the plane, 60 degrees apart; Cos100 holds
\* 100 * cos of the angle between two of them (0, 60 and 120 degrees).
Cos100 == << 100, 50, -50 >>
Vectors == 0..(Len(Cos100) - 1)
NoVector == -1

Abs(x) == IF x < 0 THEN -x ELSE x

\* 1 - (embedding <=> $1), times 100
Similarity(u, v) == Cos100[Abs(u - v) + 1]

\* thresholds, times 100; 30 is the default of searchSimilarDocuments
DefaultThreshold == 30
Thresholds == {0, DefaultThreshold, 50, 100}
DefaultMaxSources == 3
Limits == 1..MaxLimit

Filenames == {"a.txt"}

\* Ranked without the ORDER BY: the rows come back in any order
Ranked_Unordered(cands, q, limit) ==
  LET k == Min(limit, Cardinality(cands))
  IN { s \in [1..k -> cands] : \A i, j \in 1..k : i # j => s[i] # s[j] }

\* Ranked with the limit applied one row too early
Ranked_LimitOffByOne(cands, q, limit) ==
  LET k == Max(0, Min(limit, Cardinality(cands)) - 1)
  IN { s \in [1..k -> cands] :
         /\ \A i, j \in 1..k : i # j => s[i] # s[j]
         /\ \A i, j \in 1..k :
              i < j => Similarity(s[i].embedding, q) >= Similarity(s[j].embedding, q)
         /\ \A d \in cands : (\A i \in 1..k : s[i] # d) =>
              \A i \in 1..k : Similarity(d.embedding, q) <= Similarity(s[i].embedding, q) }

\* ORDER BY embedding <=> $1 LIMIT k over the rows cands: every sequence the
\* store may return (the order of rows at equal distance is not specified)
Ranked(cands, q, limit) ==
  LET k == Min(limit, Cardinality(cands))
  IN { s \in [1..k -> cands] :
         /\ \A i, j \in 1..k : i # j => s[i] # s[j]
         /\ \A i, j \in 1..k :
              i < j => Similarity(s[i].embedding, q) >= Similarity(s[j].embedding, q)
         /\ \A d \in cands : (\A i \in 1..k : s[i] # d) =>
              \A i \in 1..k : Similarity(d.embedding, q) <= Similarity(s[i].embedding, q) }

\* SearchRows with >= in the WHERE clause
SearchRows_AtLeast(docs, q, threshold, limit) ==
  Ranked({d \in docs : Similarity(d.embedding, q) >= threshold}, q, limit)

\* searchQuery: WHERE 1 - (embedding <=> $1) > $2 ORDER BY embedding <=> $1 LIMIT $3
SearchRows(docs, q, threshold, limit) ==
  Ranked({d \in docs : Similarity(d.embedding, q) > threshold}, q, limit)

\* RetryRows with the threshold filter of the first query kept
RetryRows_Thresholded(docs, q, threshold, limit) ==
  SearchRows(docs, q, threshold, limit)

\* retryQuery: ORDER BY embedding <=> $1 LIMIT $2
RetryRows(docs, q, threshold, limit) ==
  Ranked(docs, q, limit)

\* rows.map(row => ({ id: row.id.toString(), score: ..., text: row.content }))
ToResults(rows, q) ==
  [i \in 1..Len(rows) |->
     [id |-> ToString(rows[i].id),
      score |-> Similarity(rows[i].embedding, q),
      text |-> rows[i].content]]

\* INSERT INTO documents (title, content, ...) with the id taken from the sequence
InsertedRow(id, title, content, embedding) ==
  [id |-> id, title |-> title, content |-> content, embedding |-> embedding]

\* the insert fails on a primary-key conflict with a row that holds the id
InsertConflicts(docs, id) == \E d \in docs : d.id = id

----------------------------------------------------------------------------
(* ragService: validateQuestion *)

MinQuestionLength == 5
MaxQuestionLength == 1000

\* validateQuestion without the minimum-length check
validateQuestion_NoMinLength(question) ==
  IF question = <<>> \/ Len(Trim(question)) = 0
  THEN [isValid |-> FALSE, message |-> "empty"]
  ELSE IF Len(question) > MaxQuestionLength
  THEN [isValid |-> FALSE, message |-> "too long"]
  ELSE [isValid |-> TRUE, message |-> ""]

\* validateQuestion with the upper limit applied to the trimmed question
validateQuestion_TrimmedMax(question) ==
  IF question = <<>> \/ Len(Trim(question)) = 0
  THEN [isValid |-> FALSE, message |-> "empty"]
  ELSE IF Len(Trim(question)) < MinQuestionLength
  THEN [isValid |-> FALSE, message |-> "too short"]
  ELSE IF Len(Trim(question)) > MaxQuestionLength
  THEN [isValid |-> FALSE, message |-> "too long"]
  ELSE [isValid |-> TRUE, message |-> ""]

validateQuestion(question) ==
  IF question = <<>> \/ Len(Trim(question)) = 0
  THEN [isValid |-> FALSE, message |-> "empty"]
  ELSE IF Len(Trim(question)) < MinQuestionLength
  THEN [isValid |-> FALSE, message |-> "too short"]
  ELSE IF Len(question) > MaxQuestionLength
  THEN [isValid |-> FALSE, message |-> "too long"]
  ELSE [isValid |-> TRUE, message |-> ""]

Repeat(c, n) == [i \in 1..n |-> c]

\* the questions requests are made with: empty, blank, short and long enough,
\* with and without blanks around them
Questions ==
  { <<>>, Repeat(SP, 2), Repeat(Letter, 4), <<SP>> \o Repeat(Letter, 4),
    Repeat(Letter, 5), <<SP>> \o Repeat(Letter, 5) }

\* questions around both limits of validateQuestion, with up to MaxPad blanks
\* before and after them
PaddedQuestions ==
  { Repeat(SP, lead) \o Repeat(Letter, core) \o Repeat(SP, trail) :
      lead \in 0..MaxPad, trail \in 0..MaxPad,
      core \in {0, 1, MinQuestionLength - 1, MinQuestionLength,
                MaxQuestionLength - 2, MaxQuestionLength - 1,
                MaxQuestionLength, MaxQuestionLength + 1} }

----------------------------------------------------------------------------
(* The request being handled *)

\* the result of getCollectionInfo before any query has answered
NoInfo == [status |-> "", vectorsCount |-> 0, indexedVectorsCount |-> 0, pointsCount |-> 0]

\* no upload has been answered before the one being handled
NoUpload == [chunkIds |-> <<>>, rows |-> {}]

NoReq ==
  [kind |-> "none", pc |-> "idle",
   question |-> <<>>, limit |-> 0, threshold |-> 0,
   queryEmbedding |-> NoVector,
   results |-> <<>>, searched |-> FALSE, usedFallback |-> FALSE,
   context |-> <<>>,
   seenFirst |-> {}, seenRetry |-> {},
   failed |-> "none",
   filename |-> "", nChunks |-> 0, chunkIndex |-> 0,
   attempted |-> <<>>, insertedIds |-> <<>>,
   starts |-> 0, sample |-> 0,
   docId |-> "", docText |-> <<>>, ids |-> <<>>,
   totalDocs |-> 0, vectorDocs |-> 0, info |-> NoInfo,
   firstUpload |-> NoUpload,
   mimetype |-> "", tempFile |-> FALSE, unlinkFailed |-> FALSE]

NoCalls == [embed |-> 0, search |-> 0, llm |-> 0]

NoResp == [status |-> 0, error |-> "", answer |-> "", sources |-> <<>>,
           results |-> <<>>, totalChunks |-> 0, chunkIds |-> <<>>,
           stats |-> NoInfo, documents |-> {}]

NoInfoAnswer == "no relevant information found"
NoContentAnswer == "error occurred"
GeneratedAnswer == "generated"

\* a handler can start when no request is being handled
CanStart == req.pc \in {"idle", "done"}

\* the catch block of a route handler: res.status(500).json({ error, details })
ErrorResponse(kind) ==
  [NoResp EXCEPT !.status = 500,
                 !.error = CASE kind = "ask" -> "answer generation failed"
                             [] kind = "search" -> "Failed to search"
                             [] kind = "upsert" -> "Failed to upsert"
                             [] kind = "stats" -> "failed to get statistics"
                             [] kind = "documents" -> "failed to get documents"
                             [] kind = "delete" -> "failed to delete the document"
                             [] kind = "deleteMany" -> "failed to delete the documents"
                             [] OTHER -> "file processing failed"]

\* Throw with the failed call left to be made again
Throw_Retries(r, stage) == [r EXCEPT !.failed = stage]

\* an awaited call of the request throws at the given stage: every catch block
\* on the way rethrows, the route handler answers 500
Throw(r, stage) == [r EXCEPT !.pc = "done", !.failed = stage]

----------------------------------------------------------------------------
(* ragService: generateRAGAnswer and POST /api/ask *)

PreviewLength == 150
Ellipsis == << ".", ".", "." >>

\* ChunkPreview with texts of exactly PreviewLength characters cut as well
ChunkPreview_AtLeast(docText) ==
  IF Len(docText) >= PreviewLength
  THEN SubstringRange(docText, 0, PreviewLength) \o Ellipsis
  ELSE docText

\* chunk_preview: doc.text.length > 150 ? doc.text.substring(0, 150) + '...' : doc.text
ChunkPreview(docText) ==
  IF Len(docText) > PreviewLength
  THEN SubstringRange(docText, 0, PreviewLength) \o Ellipsis
  ELSE docText

\* sources of the answer: one entry per search result, in order
AnswerSources(results) ==
  [i \in 1..Len(results) |->
     [id |-> results[i].id, score |-> results[i].score, text |-> results[i].text,
      chunk_preview |-> ChunkPreview(results[i].text)]]

\* (score * 100).toFixed(1); the scores of the model are whole hundredths
ToFixed1(score100) == << ToString(score100), ".", "0" >>

\* the line that opens a block: `[source${index}] (relevance: ${percent}%)\n`
BlockLabel(score100, index) ==
  << "[source", ToString(index), "] (relevance: " >> \o ToFixed1(score100)
     \o << "%)", LF >>

\* SourceBlock with the preview in place of the text
SourceBlock_Preview(doc, index) ==
  BlockLabel(doc.score, index) \o ChunkPreview(doc.text)

\* the block of one search result: its label line, then doc.text
SourceBlock(doc, index) ==
  BlockLabel(doc.score, index) \o doc.text

\* '\n\n---\n\n'
ContextDelimiter == << LF, LF, "-", "-", "-", LF, LF >>

RECURSIVE JoinWith(_, _)
\* Array.prototype.join
JoinWith(parts, separator) ==
  IF Len(parts) = 0 THEN <<>>
  ELSE IF Len(parts) = 1 THEN parts[1]
  ELSE parts[1] \o separator \o JoinWith(Tail(parts), separator)

\* const context = searchResults.map(...).join('\n\n---\n\n')
BuildContext(results) ==
  JoinWith([i \in 1..Len(results) |-> SourceBlock(results[i], i)], ContextDelimiter)

\* AfterSearch without the short cut for an empty result
AfterSearch_AlwaysLLM(r, results) ==
  [req |-> [r EXCEPT !.pc = "llm"], resp |-> NoResp]

\* generateRAGAnswer from the return of searchSimilarDocuments up to its next
\* await: the answer without sources, or the call of the language model
AfterSearch(r, results) ==
  IF Len(results) = 0
  THEN [req |-> [r EXCEPT !.pc = "done"],
        resp |-> [NoResp EXCEPT !.status = 200, !.answer = NoInfoAnswer, !.sources = <<>>]]
  ELSE [req |-> [r EXCEPT !.pc = "llm", !.context = BuildContext(results)],
        resp |-> NoResp]

\* what the caller of searchSimilarDocuments does with the returned results
Returned(r, results) ==
  IF r.kind = "ask" THEN AfterSearch(r, results)
  ELSE [req |-> [r EXCEPT !.pc = "done"],
        resp |-> [NoResp EXCEPT !.status = 200, !.results = results]]

\* POST /api/ask up to its first await, for a question of the given set
AskRequestWith(questions) ==
  /\ CanStart
  /\ \E question \in questions :
       LET validation == validateQuestion(question)
           r == [NoReq EXCEPT !.kind = "ask", !.question = question]
       IN IF ~validation.isValid
          THEN /\ req' = [r EXCEPT !.pc = "done"]
               /\ resp' = [NoResp EXCEPT !.status = 400, !.error = validation.message]
          ELSE /\ req' = [r EXCEPT !.pc = "connect", !.limit = DefaultMaxSources,
                                   !.threshold = DefaultThreshold]
               /\ resp' = NoResp
  /\ calls' = NoCalls
  /\ UNCHANGED << documents, nextSerial, poolOut >>
  /\ UNCHANGED << chunkVars, clientVars >>

AskRequest == AskRequestWith(Questions)

\* GET /api/search up to its first await: a call of searchSimilarDocuments
\* (query, limit, threshold).  The route always passes the default threshold;
\* the other thresholds are calls of the exported function with its third
\* parameter given.
SearchRequest ==
  /\ CanStart
  /\ \/ /\ \E limit \in Limits, threshold \in Thresholds :
             req' = [NoReq EXCEPT !.kind = "search", !.pc = "connect",
                                  !.limit = limit, !.threshold = threshold]
        /\ resp' = NoResp
     \/ /\ req' = [NoReq EXCEPT !.kind = "search", !.pc = "done"]
        /\ resp' = [NoResp EXCEPT !.status = 400, !.error = "query is required"]
  /\ calls' = NoCalls
  /\ UNCHANGED << documents, nextSerial, poolOut >>
  /\ UNCHANGED << chunkVars, clientVars >>

----------------------------------------------------------------------------
(* pgClient.ts: searchSimilarDocuments *)

InSearch == req.kind \in {"ask", "search"}

\* const client = await pool.connect()
SearchConnect ==
  /\ InSearch /\ req.pc = "connect"
  /\ \/ /\ poolOut' = poolOut + 1
        /\ req' = [req EXCEPT !.pc = "embed"]
        /\ resp' = resp
     \/ /\ poolOut' = poolOut
        /\ req' = Throw(req, "connect")
        /\ resp' = ErrorResponse(req.kind)
  /\ UNCHANGED << documents, nextSerial, calls >>
  /\ UNCHANGED << chunkVars, clientVars >>

\* EmbedFailed with the error swallowed: an empty result is returned
EmbedFailed_Swallowed(r) ==
  [req |-> [r EXCEPT !.pc = "done", !.failed = "embed"],
   resp |-> [NoResp EXCEPT !.status = 200]]

\* the embedding service fails inside searchSimilarDocuments: catch rethrows,
\* finally releases the client
EmbedFailed(r) == [req |-> Throw(r, "embed"), resp |-> ErrorResponse(r.kind)]

\* const queryEmbedding = await embedText(query)
SearchEmbed ==
  /\ InSearch /\ req.pc = "embed"
  /\ calls' = [calls EXCEPT !.embed = @ + 1]
  /\ \/ /\ \E v \in Vectors : req' = [req EXCEPT !.pc = "query", !.queryEmbedding = v]
        /\ resp' = resp
        /\ poolOut' = poolOut
     \/ /\ req' = EmbedFailed(req).req
        /\ resp' = EmbedFailed(req).resp
        /\ poolOut' = poolOut - 1
  /\ UNCHANGED << documents, nextSerial >>
  /\ UNCHANGED << chunkVars, clientVars >>

\* const result = await client.query(searchQuery, ...), and the return when
\* it has rows
SearchQuery ==
  /\ InSearch /\ req.pc = "query"
  /\ calls' = [calls EXCEPT !.search = @ + 1]
  /\ \/ \E rows \in SearchRows(documents, req.queryEmbedding, req.threshold, req.limit) :
          LET r == [req EXCEPT !.seenFirst = documents]
          IN IF Len(rows) > 0
             THEN LET results == ToResults(rows, req.queryEmbedding)
                      out == Returned([r EXCEPT !.results = results, !.searched = TRUE],
                                      results)
                  IN /\ req' = out.req
                     /\ resp' = out.resp
                     /\ poolOut' = poolOut - 1
             ELSE /\ req' = [r EXCEPT !.pc = "retry"]
                  /\ resp' = resp
                  /\ poolOut' = poolOut
     \/ /\ req' = Throw(req, "query")
        /\ resp' = ErrorResponse(req.kind)
        /\ poolOut' = poolOut - 1
  /\ UNCHANGED << documents, nextSerial >>
  /\ UNCHANGED << chunkVars, clientVars >>

\* const retryResult = await client.query(retryQuery, ...), and the return
SearchRetry ==
  /\ InSearch /\ req.pc = "retry"
  /\ calls' = [calls EXCEPT !.search = @ + 1]
  /\ \/ \E rows \in RetryRows(documents, req.queryEmbedding, req.threshold, req.limit) :
          LET results == ToResults(rows, req.queryEmbedding)
              out == Returned([req EXCEPT !.results = results, !.searched = TRUE,
                                          !.usedFallback = TRUE,
                                          !.seenRetry = documents],
                              results)
          IN /\ req' = out.req
             /\ resp' = out.resp
     \/ /\ req' = Throw(req, "retry")
        /\ resp' = ErrorResponse(req.kind)
  /\ poolOut' = poolOut - 1
  /\ UNCHANGED << documents, nextSerial >>
  /\ UNCHANGED << chunkVars, clientVars >>

\* LLMFailed with a made-up answer returned in place of the error
LLMFailed_FallbackAnswer(r) ==
  [req |-> Throw(r, "llm"),
   resp |-> [NoResp EXCEPT !.status = 200, !.answer = NoContentAnswer,
                           !.sources = AnswerSources(r.results)]]

\* the language model call fails: the catch block of generateRAGAnswer throws
\* the synthesis failure
LLMFailed(r) == [req |-> Throw(r, "llm"), resp |-> ErrorResponse(r.kind)]

\* await openai.chat.completions.create(...), and the rest of generateRAGAnswer
AskLLM ==
  /\ req.kind = "ask" /\ req.pc = "llm"
  /\ calls' = [calls EXCEPT !.llm = @ + 1]
  /\ \/ \E answer \in {GeneratedAnswer, NoContentAnswer} :
          /\ req' = [req EXCEPT !.pc = "done"]
          /\ resp' = [NoResp EXCEPT !.status = 200, !.answer = answer,
                                    !.sources = AnswerSources(req.results)]
     \/ /\ req' = LLMFailed(req).req
        /\ resp' = LLMFailed(req).resp
  /\ UNCHANGED << documents, nextSerial, poolOut >>
  /\ UNCHANGED << chunkVars, clientVars >>

----------------------------------------------------------------------------
(* index.ts: POST /api/upload, with pgClient.ts: upsertDocumentWithMetadata *)

\* the first call of upsertDocumentWithMetadata for chunk i of the loop
StartChunk(r, i) ==
  [r EXCEPT !.pc = "up_connect", !.chunkIndex = i, !.attempted = Append(@, i)]

\* POST /api/upload up to its first await (processUploadedFile)
UploadRequest ==
  /\ CanStart
  /\ \/ /\ \E filename \in Filenames :
             req' = [NoReq EXCEPT !.kind = "upload", !.pc = "process",
                                  !.filename = filename]
        /\ resp' = NoResp
     \/ /\ req' = [NoReq EXCEPT !.kind = "upload", !.pc = "done"]
        /\ resp' = [NoResp EXCEPT !.status = 400, !.error = "no file"]
  /\ calls' = NoCalls
  /\ UNCHANGED << documents, nextSerial, poolOut >>
  /\ UNCHANGED << chunkVars, clientVars >>

\* await processUploadedFile(...): the chunks of the file, or an error
UploadProcess ==
  /\ req.kind = "upload" /\ req.pc = "process"
  /\ \/ /\ \E n \in 1..MaxChunks : req' = StartChunk([req EXCEPT !.nChunks = n], 1)
        /\ resp' = resp
     \/ /\ req' = Throw(req, "process")
        /\ resp' = ErrorResponse(req.kind)
  /\ UNCHANGED << documents, nextSerial, poolOut, calls >>
  /\ UNCHANGED << chunkVars, clientVars >>

\* upsertDocumentWithMetadata: const client = await pool.connect()
UploadConnect ==
  /\ req.kind = "upload" /\ req.pc = "up_connect"
  /\ \/ /\ poolOut' = poolOut + 1
        /\ req' = [req EXCEPT !.pc = "up_embed"]
        /\ resp' = resp
     \/ /\ poolOut' = poolOut
        /\ req' = Throw(req, "connect")
        /\ resp' = ErrorResponse(req.kind)
  /\ UNCHANGED << documents, nextSerial, calls >>
  /\ UNCHANGED << chunkVars, clientVars >>

\* ChunkFailed with the chunks stored so far removed again
ChunkFailed_RollsBack(r, docs, stage) ==
  [req |-> Throw(r, stage), resp |-> ErrorResponse(r.kind),
   documents |-> {d \in docs : \A j \in 1..Len(r.insertedIds) : d.id # r.insertedIds[j]}]

\* upsertDocumentWithMetadata throws for the current chunk: the catch block of
\* the route answers 500; nothing is undone
ChunkFailed(r, docs, stage) ==
  [req |-> Throw(r, stage), resp |-> ErrorResponse(r.kind), documents |-> docs]

\* upsertDocumentWithMetadata: const embedding = await embedText(text)
UploadEmbed ==
  /\ req.kind = "upload" /\ req.pc = "up_embed"
  /\ calls' = [calls EXCEPT !.embed = @ + 1]
  /\ \/ /\ \E v \in Vectors : req' = [req EXCEPT !.pc = "up_insert", !.queryEmbedding = v]
        /\ resp' = resp
        /\ documents' = documents
        /\ poolOut' = poolOut
     \/ /\ req' = ChunkFailed(req, documents, "embed").req
        /\ resp' = ChunkFailed(req, documents, "embed").resp
        /\ documents' = ChunkFailed(req, documents, "embed").documents
        /\ poolOut' = poolOut - 1
  /\ UNCHANGED << nextSerial >>
  /\ UNCHANGED << chunkVars, clientVars >>

\* const chunkId = `${processedFile.filename}_chunk_${i + 1}`
ChunkId(filename, i) == filename \o "_chunk_" \o ToString(i)

\* AfterChunk with the ids of the stored rows reported as chunk ids
AfterChunk_ReportsRowIds(r) ==
  IF r.chunkIndex < r.nChunks
  THEN [req |-> StartChunk(r, r.chunkIndex + 1), resp |-> NoResp]
  ELSE [req |-> [r EXCEPT !.pc = "done"],
        resp |-> [NoResp EXCEPT !.status = 200, !.totalChunks = r.nChunks,
                                !.chunkIds = [i \in 1..r.nChunks |->
                                                ToString(r.insertedIds[i])]]]

\* the route handler after upsertDocumentWithMetadata returned for chunk i:
\* the next chunk, or res.json after the last one
AfterChunk(r) ==
  IF r.chunkIndex < r.nChunks
  THEN [req |-> StartChunk(r, r.chunkIndex + 1), resp |-> NoResp]
  ELSE [req |-> [r EXCEPT !.pc = "done"],
        resp |-> [NoResp EXCEPT !.status = 200, !.totalChunks = r.nChunks,
                                !.chunkIds = [i \in 1..r.nChunks |->
                                                ChunkId(r.filename, i)]]]

\* upsertDocumentWithMetadata: await client.query(INSERT ... RETURNING id),
\* the release of the client and the return to the loop of the route
UploadInsert ==
  /\ req.kind = "upload" /\ req.pc = "up_insert"
  /\ \/ /\ nextSerial <= MaxSerial
        /\ ~InsertConflicts(documents, nextSerial)
        /\ documents' = documents \cup
             {InsertedRow(nextSerial, req.filename, <<req.filename, req.chunkIndex>>,
                          req.queryEmbedding)}
        /\ nextSerial' = nextSerial + 1
        /\ LET out == AfterChunk([req EXCEPT !.insertedIds = Append(@, nextSerial)])
           IN req' = out.req /\ resp' = out.resp
     \/ /\ req' = ChunkFailed(req, documents, "insert").req
        /\ resp' = ChunkFailed(req, documents, "insert").resp
        /\ documents' = ChunkFailed(req, documents, "insert").documents
        /\ nextSerial' = IF InsertConflicts(documents, nextSerial)
                         THEN nextSerial + 1 ELSE nextSerial
  /\ poolOut' = poolOut - 1
  /\ UNCHANGED calls
  /\ UNCHANGED << chunkVars, clientVars >>

----------------------------------------------------------------------------
(* Statements of the requests that run concurrently with the one followed *)

\* the INSERT of another request's upsertDocumentWithMetadata
OtherInsert ==
  /\ nextSerial <= MaxSerial
  /\ ~InsertConflicts(documents, nextSerial)
  /\ \E v \in Vectors :
       documents' = documents \cup {InsertedRow(nextSerial, "other", <<"other", 0>>, v)}
  /\ nextSerial' = nextSerial + 1
  /\ UNCHANGED << poolOut, req, calls, resp >>
  /\ UNCHANGED << chunkVars, clientVars >>

\* the DELETE of another request's deleteDocument
OtherDelete ==
  /\ \E d \in documents :
       documents' = documents \ {d}
  /\ UNCHANGED << nextSerial, poolOut, req, calls, resp >>
  /\ UNCHANGED << chunkVars, clientVars >>

----------------------------------------------------------------------------
(* The frontend components as mounted *)

\* RAGChat: useState('') for question and error, null for response (NoAnswer),
\* false for loading; inFlight holds the askQuestion calls not yet answered and
\* submitted counts the calls made
NoAnswer == [id |-> 0, question |-> <<>>]

NoChat ==
  [question |-> <<>>, response |-> NoAnswer, loading |-> FALSE, error |-> "",
   inFlight |-> {}, submitted |-> 0]

\* DocumentManager: useState([]) for documents, false for loading, '' for
\* error; loads and deletes hold the requests not yet answered, started counts
\* the calls of loadDocuments, removed the documents a delete took off the list
NoManager ==
  [documents |-> {}, loading |-> FALSE, error |-> "",
   loads |-> {}, deletes |-> {}, started |-> 0, removed |-> {}]

\* FileUpload: useState(false) for uploading, '' for uploadResult and error;
\* inFlight tells that uploadFile has been called and has not answered
NoFileUpload ==
  [uploading |-> FALSE, uploadResult |-> "", error |-> "", inFlight |-> FALSE]

ClientIdle ==
  /\ ragChat = NoChat /\ documentManager = NoManager /\ fileUpload = NoFileUpload

----------------------------------------------------------------------------
(* The backend *)

ChunkIdle ==
  /\ text = <<>> /\ chunkSize = 1 /\ overlapSize = 0
  /\ chunks = <<>> /\ finalChunks = <<>> /\ chunkPc = "idle"

ServerIdle ==
  /\ documents = {} /\ nextSerial = 1 /\ poolOut = 0
  /\ req = NoReq /\ calls = NoCalls /\ resp = NoResp

Init == ChunkIdle /\ ServerIdle /\ ClientIdle

Next ==
  \/ AskRequest \/ SearchRequest
  \/ SearchConnect \/ SearchEmbed \/ SearchQuery \/ SearchRetry \/ AskLLM
  \/ UploadRequest \/ UploadProcess \/ UploadConnect \/ UploadEmbed \/ UploadInsert
  \/ OtherInsert \/ OtherDelete

Spec == Init /\ [][Next]_vars

----------------------------------------------------------------------------
(* pgClient.ts: initDatabase, called once at every start of the server *)

\* const sampleData = [...]: title and content of the three sample documents
SampleData ==
  << [title |-> "Welcome Document", content |-> <<"sample", 1>>],
     [title |-> "AI Introduction", content |-> <<"sample", 2>>],
     [title |-> "RAG Explanation", content |-> <<"sample", 3>>] >>

\* index.ts: the start of the server calls initDatabase()
StartServer ==
  /\ CanStart
  /\ req.starts < MaxStarts
  /\ req' = [NoReq EXCEPT !.kind = "init", !.pc = "init_connect",
                          !.starts = req.starts + 1]
  /\ calls' = NoCalls
  /\ resp' = NoResp
  /\ UNCHANGED << documents, nextSerial, poolOut >>
  /\ UNCHANGED << chunkVars, clientVars >>

\* initDatabase: const client = await pool.connect()
InitConnect ==
  /\ req.kind = "init" /\ req.pc = "init_connect"
  /\ \/ /\ poolOut' = poolOut + 1
        /\ req' = [req EXCEPT !.pc = "init_schema"]
     \/ /\ poolOut' = poolOut
        /\ req' = Throw(req, "connect")
  /\ UNCHANGED << documents, nextSerial, calls, resp >>
  /\ UNCHANGED << chunkVars, clientVars >>

\* initDatabase: CREATE EXTENSION / TABLE / INDEX ... IF NOT EXISTS; the rows
\* of an existing table stay as they are
InitSchema ==
  /\ req.kind = "init" /\ req.pc = "init_schema"
  /\ \/ /\ req' = [req EXCEPT !.pc = "init_embed", !.sample = 1]
        /\ poolOut' = poolOut
     \/ /\ req' = Throw(req, "schema")
        /\ poolOut' = poolOut - 1
  /\ UNCHANGED << documents, nextSerial, calls, resp >>
  /\ UNCHANGED << chunkVars, clientVars >>

\* initDatabase: const embedding = await embedText(doc.content)
InitEmbed ==
  /\ req.kind = "init" /\ req.pc = "init_embed"
  /\ calls' = [calls EXCEPT !.embed = @ + 1]
  /\ \/ /\ \E v \in Vectors : req' = [req EXCEPT !.pc = "init_insert", !.queryEmbedding = v]
        /\ poolOut' = poolOut
     \/ /\ req' = Throw(req, "embed")
        /\ poolOut' = poolOut - 1
  /\ UNCHANGED << documents, nextSerial, resp >>
  /\ UNCHANGED << chunkVars, clientVars >>

\* INSERT INTO documents (title, content, content_type, metadata, embedding)
\* VALUES (...) ON CONFLICT DO NOTHING: the id comes from the sequence, and the
\* only unique constraint of the table is its primary key
SampleInsert(docs, serial, doc, embedding) ==
  IF InsertConflicts(docs, serial)
  THEN docs
  ELSE docs \cup {InsertedRow(serial, doc.title, doc.content, embedding)}

\* initDatabase: await client.query(INSERT ...) for one sample, then the next
\* sample, or the release of the client after the last one
InitInsert ==
  /\ req.kind = "init" /\ req.pc = "init_insert"
  /\ \/ /\ documents' = SampleInsert(documents, nextSerial, SampleData[req.sample],
                                     req.queryEmbedding)
        /\ nextSerial' = nextSerial + 1
        /\ IF req.sample < Len(SampleData)
           THEN /\ req' = [req EXCEPT !.pc = "init_embed", !.sample = @ + 1]
                /\ poolOut' = poolOut
           ELSE /\ req' = [req EXCEPT !.pc = "done"]
                /\ poolOut' = poolOut - 1
     \/ /\ req' = Throw(req, "insert")
        /\ poolOut' = poolOut - 1
        /\ UNCHANGED << documents, nextSerial >>
  /\ UNCHANGED << calls, resp >>
  /\ UNCHANGED << chunkVars, clientVars >>

\* the starts of the server against one database
SpecStart ==
  Init /\ [][ \/ StartServer \/ InitConnect \/ InitSchema \/ InitEmbed \/ InitInsert ]_vars

----------------------------------------------------------------------------
(* Calls of chunkText *)

InitChunk ==
  /\ text \in StringsUpTo(MaxTextLen)
  /\ chunkSize \in 1..MaxChunkSize
  /\ overlapSize \in 0..MaxOverlap
  /\ chunks = <<>> /\ finalChunks = <<>> /\ chunkPc = "call"
  /\ ServerIdle /\ ClientIdle

ChunkTextCall ==
  /\ chunkPc = "call"
  /\ chunks' = PreOverlapChunks(text, chunkSize)
  /\ finalChunks' = chunkText(text, chunkSize, overlapSize)
  /\ chunkPc' = "returned"
  /\ UNCHANGED << text, chunkSize, overlapSize >>
  /\ UNCHANGED << serverVars, clientVars >>

SpecChunk == InitChunk /\ [][ChunkTextCall]_vars

----------------------------------------------------------------------------
(* Calls of chunkText with documents made of whole paragraphs *)

ParagraphOne ==
  << "P", "a", "r", "a", "g", "r", "a", "p", "h", " ", "o", "n", "e", " ",
     "a", "b", "o", "u", "t", " ", "c", "a", "t", "s", "." >>

ParagraphTwo ==
  << "P", "a", "r", "a", "g", "r", "a", "p", "h", " ", "t", "w", "o", " ",
     "a", "b", "o", "u", "t", " ", "d", "o", "g", "s", " ", "t", "h", "a",
     "t", " ", "i", "s", " ", "q", "u", "i", "t", "e", " ", "l", "o", "n",
     "g", ".", ".", "." >>

ShortSentence ==
  << "D", "o", "g", "s", "." >>

\* paragraphs of one or several sentences, short and long
ParagraphPool ==
  { ParagraphOne, ParagraphTwo,
    ParagraphOne \o <<SP>> \o ParagraphOne \o <<SP>> \o ShortSentence,
    << "a" >>, << "a", "a", ".", "a", "a", ".", "a" >>, << "a", "a", ".", " ", "a" >> }

\* documents of up to MaxParagraphs paragraphs with a blank line between them,
\* up to MaxDocumentLen characters long
InitParagraphs ==
  /\ \E n \in 1..MaxParagraphs :
       \E paragraphs \in [1..n -> ParagraphPool] :
         /\ text = JoinWith(paragraphs, <<LF, LF>>)
         /\ Len(text) <= MaxDocumentLen
  /\ chunkSize \in {4, 50}
  /\ overlapSize \in {0, 10}
  /\ chunks = <<>> /\ finalChunks = <<>> /\ chunkPc = "call"
  /\ ServerIdle /\ ClientIdle

SpecParagraphs == InitParagraphs /\ [][ChunkTextCall]_vars

----------------------------------------------------------------------------
(* Ask requests over stored chunks of real length *)

\* a text of n characters, no two neighbours alike
TextOfLength(n) == [i \in 1..n |-> IF i % 3 = 1 THEN Letter ELSE IF i % 3 = 2 THEN SP ELSE Stop]

\* chunk texts shorter than, as long as and longer than the preview
StoredTexts == { TextOfLength(n) : n \in {1, PreviewLength, PreviewLength + 1} }

\* the table after uploads of up to MaxStored chunks; no request being handled
InitStored ==
  /\ ChunkIdle /\ ClientIdle
  /\ \E n \in 0..MaxStored :
       \E contents \in [1..n -> StoredTexts], embeddings \in [1..n -> Vectors] :
         /\ documents = { InsertedRow(i, "a.txt", contents[i], embeddings[i]) : i \in 1..n }
         /\ nextSerial = n + 1
  /\ poolOut = 0
  /\ req = NoReq /\ calls = NoCalls /\ resp = NoResp

NextAsk ==
  \/ AskRequest
  \/ SearchConnect \/ SearchEmbed \/ SearchQuery \/ SearchRetry \/ AskLLM

SpecAsk == InitStored /\ [][NextAsk]_vars

----------------------------------------------------------------------------
(* Ask requests with questions around the limits of validateQuestion *)

AskRequestPadded == AskRequestWith(PaddedQuestions)

NextValidate ==
  \/ AskRequestPadded
  \/ SearchConnect \/ SearchEmbed \/ SearchQuery \/ SearchRetry

SpecValidate == Init /\ [][NextValidate]_vars

----------------------------------------------------------------------------
(* index.ts: POST /api/upsert, with pgClient.ts: upsertDocument *)

\* the ids requests are made with: the decimal strings of the values the
\* sequence takes, and a name
UpsertIds == {ToString(n) : n \in 1..MaxSerial} \cup {"notes"}

\* the texts requests are made with
UpsertTexts == { <<"text", 1>>, <<"text", 2>> }

\* const isNumericId = /^\d+$/.test(id)
IsNumericId(id) == \E n \in 0..MaxSerial : ToString(n) = id

\* parseInt(id) of a numeric id
ParseInt(id) == CHOOSE n \in 0..MaxSerial : ToString(n) = id

\* POST /api/upsert up to its first await: 400 without id or text
UpsertRequestWith(ids, texts) ==
  /\ CanStart
  /\ \E id \in ids \cup {""}, docText \in texts \cup {<<>>} :
       IF id = "" \/ docText = <<>>
       THEN /\ req' = [NoReq EXCEPT !.kind = "upsert", !.pc = "done"]
            /\ resp' = [NoResp EXCEPT !.status = 400, !.error = "id and text are required"]
       ELSE /\ req' = [NoReq EXCEPT !.kind = "upsert", !.pc = "ups_connect",
                                    !.docId = id, !.docText = docText]
            /\ resp' = NoResp
  /\ calls' = NoCalls
  /\ UNCHANGED << documents, nextSerial, poolOut >>
  /\ UNCHANGED << chunkVars, clientVars >>

UpsertRequest == UpsertRequestWith(UpsertIds, UpsertTexts)

\* upsertDocument: const client = await pool.connect()
UpsertConnect ==
  /\ req.kind = "upsert" /\ req.pc = "ups_connect"
  /\ \/ /\ poolOut' = poolOut + 1
        /\ req' = [req EXCEPT !.pc = "ups_embed"]
        /\ resp' = resp
     \/ /\ poolOut' = poolOut
        /\ req' = Throw(req, "connect")
        /\ resp' = ErrorResponse(req.kind)
  /\ UNCHANGED << documents, nextSerial, calls >>
  /\ UNCHANGED << chunkVars, clientVars >>

\* upsertDocument: const embedding = await embedText(text)
UpsertEmbed ==
  /\ req.kind = "upsert" /\ req.pc = "ups_embed"
  /\ calls' = [calls EXCEPT !.embed = @ + 1]
  /\ \/ /\ \E v \in Vectors : req' = [req EXCEPT !.pc = "ups_query", !.queryEmbedding = v]
        /\ resp' = resp
        /\ poolOut' = poolOut
     \/ /\ req' = Throw(req, "embed")
        /\ resp' = ErrorResponse(req.kind)
        /\ poolOut' = poolOut - 1
  /\ UNCHANGED << documents, nextSerial >>
  /\ UNCHANGED << chunkVars, clientVars >>

\* UpsertRows with ON CONFLICT (id) DO NOTHING
UpsertRows_KeepsStored(docs, id, title, content, embedding) ==
  IF InsertConflicts(docs, id)
  THEN docs
  ELSE docs \cup {InsertedRow(id, title, content, embedding)}

\* INSERT INTO documents (id, title, content, embedding) VALUES ($1, $2, $3, $4)
\* ON CONFLICT (id) DO UPDATE SET content = EXCLUDED.content,
\* embedding = EXCLUDED.embedding, created_at = CURRENT_TIMESTAMP
UpsertRows(docs, id, title, content, embedding) ==
  IF InsertConflicts(docs, id)
  THEN { IF d.id = id THEN [d EXCEPT !.content = content, !.embedding = embedding]
                      ELSE d : d \in docs }
  ELSE docs \cup {InsertedRow(id, title, content, embedding)}

\* res.json({ ok: true })
UpsertDone(r) ==
  [req |-> [r EXCEPT !.pc = "done"], resp |-> [NoResp EXCEPT !.status = 200]]

\* upsertDocument: await client.query(...), the release of the client and the
\* answer of the route.  A numeric id is written as given and leaves the
\* sequence alone; any other id goes into the title and the row's id comes
\* from the sequence, which is advanced also when the insert then conflicts.
UpsertQuery ==
  /\ req.kind = "upsert" /\ req.pc = "ups_query"
  /\ \/ /\ IsNumericId(req.docId)
        /\ documents' = UpsertRows(documents, ParseInt(req.docId),
                                   "Document " \o req.docId, req.docText,
                                   req.queryEmbedding)
        /\ nextSerial' = nextSerial
        /\ req' = UpsertDone(req).req
        /\ resp' = UpsertDone(req).resp
     \/ /\ ~IsNumericId(req.docId)
        /\ nextSerial <= MaxSerial
        /\ nextSerial' = nextSerial + 1
        /\ IF InsertConflicts(documents, nextSerial)
           THEN /\ documents' = documents
                /\ req' = Throw(req, "conflict")
                /\ resp' = ErrorResponse(req.kind)
           ELSE /\ documents' = documents \cup
                     {InsertedRow(nextSerial, req.docId, req.docText, req.queryEmbedding)}
                /\ req' = UpsertDone(req).req
                /\ resp' = UpsertDone(req).resp
     \/ /\ req' = Throw(req, "query")
        /\ resp' = ErrorResponse(req.kind)
        /\ UNCHANGED << documents, nextSerial >>
  /\ poolOut' = poolOut - 1
  /\ UNCHANGED calls
  /\ UNCHANGED << chunkVars, clientVars >>

\* upsert requests, with the inserts and deletes of other requests
SpecUpsert ==
  Init /\ [][ \/ UpsertRequest \/ UpsertConnect \/ UpsertEmbed \/ UpsertQuery
              \/ OtherInsert \/ OtherDelete ]_vars

----------------------------------------------------------------------------
(* index.ts: GET /api/stats and GET /api/documents, with pgClient.ts:      *)
(* getCollectionInfo and getAllDocuments                                   *)

\* GET /api/stats up to its first await (getCollectionInfo)
StatsRequest ==
  /\ CanStart
  /\ req' = [NoReq EXCEPT !.kind = "stats", !.pc = "info_connect"]
  /\ calls' = NoCalls
  /\ resp' = NoResp
  /\ UNCHANGED << documents, nextSerial, poolOut >>
  /\ UNCHANGED << chunkVars, clientVars >>

\* getCollectionInfo: const client = await pool.connect(), before the try
InfoConnect ==
  /\ req.kind = "stats" /\ req.pc = "info_connect"
  /\ \/ /\ poolOut' = poolOut + 1
        /\ req' = [req EXCEPT !.pc = "info_count"]
        /\ resp' = resp
     \/ /\ poolOut' = poolOut
        /\ req' = Throw(req, "connect")
        /\ resp' = ErrorResponse(req.kind)
  /\ UNCHANGED << documents, nextSerial, calls >>
  /\ UNCHANGED << chunkVars, clientVars >>

\* the catch block of getCollectionInfo: status red and zeros, nothing thrown;
\* the finally block releases the client and the route goes on to getAllDocuments
InfoFailed(r) ==
  [r EXCEPT !.pc = "list_connect",
            !.info = [NoInfo EXCEPT !.status = "red"]]

\* getCollectionInfo: const countResult = await client.query(countQuery), with
\* SELECT COUNT(*) as total FROM documents
InfoCount ==
  /\ req.kind = "stats" /\ req.pc = "info_count"
  /\ \/ /\ req' = [req EXCEPT !.pc = "info_vectors", !.totalDocs = Cardinality(documents)]
        /\ poolOut' = poolOut
     \/ /\ req' = InfoFailed(req)
        /\ poolOut' = poolOut - 1
  /\ UNCHANGED << documents, nextSerial, calls, resp >>
  /\ UNCHANGED << chunkVars, clientVars >>

\* getCollectionInfo: const vectorCountResult = await
\* client.query(vectorCountQuery), with SELECT COUNT(*) as total FROM documents
\* WHERE embedding IS NOT NULL
InfoVectorCount ==
  /\ req.kind = "stats" /\ req.pc = "info_vectors"
  /\ \/ /\ req' = [req EXCEPT !.pc = "info_index",
                                !.vectorDocs = Cardinality({d \in documents :
                                                              d.embedding # NoVector})]
        /\ poolOut' = poolOut
     \/ /\ req' = InfoFailed(req)
        /\ poolOut' = poolOut - 1
  /\ UNCHANGED << documents, nextSerial, calls, resp >>
  /\ UNCHANGED << chunkVars, clientVars >>

\* the object getCollectionInfo returns after its three queries
CollectionInfo(totalDocs, vectorDocs, hasVectorIndex) ==
  [status |-> "green",
   vectorsCount |-> vectorDocs,
   indexedVectorsCount |-> IF hasVectorIndex THEN vectorDocs ELSE 0,
   pointsCount |-> totalDocs]

\* getCollectionInfo: const indexResult = await client.query(indexQuery), the
\* return and the release of the client; the index exists or not
InfoIndex ==
  /\ req.kind = "stats" /\ req.pc = "info_index"
  /\ \/ \E hasVectorIndex \in BOOLEAN :
          req' = [req EXCEPT !.pc = "list_connect",
                             !.info = CollectionInfo(req.totalDocs, req.vectorDocs,
                                                     hasVectorIndex)]
     \/ req' = InfoFailed(req)
  /\ poolOut' = poolOut - 1
  /\ UNCHANGED << documents, nextSerial, calls, resp >>
  /\ UNCHANGED << chunkVars, clientVars >>

\* GET /api/documents up to its first await (getAllDocuments)
DocumentsRequest ==
  /\ CanStart
  /\ req' = [NoReq EXCEPT !.kind = "documents", !.pc = "list_connect"]
  /\ calls' = NoCalls
  /\ resp' = NoResp
  /\ UNCHANGED << documents, nextSerial, poolOut >>
  /\ UNCHANGED << chunkVars, clientVars >>

\* getAllDocuments: const client = await pool.connect()
ListConnect ==
  /\ req.kind \in {"stats", "documents"} /\ req.pc = "list_connect"
  /\ \/ /\ poolOut' = poolOut + 1
        /\ req' = [req EXCEPT !.pc = "list_query"]
        /\ resp' = resp
     \/ /\ poolOut' = poolOut
        /\ req' = Throw(req, "connect")
        /\ resp' = ErrorResponse(req.kind)
  /\ UNCHANGED << documents, nextSerial, calls >>
  /\ UNCHANGED << chunkVars, clientVars >>

\* res.json of the route that called getAllDocuments
ListDone(r, docs) ==
  IF r.kind = "stats"
  THEN [NoResp EXCEPT !.status = 200, !.stats = r.info]
  ELSE [NoResp EXCEPT !.status = 200,
                      !.documents = {[id |-> d.id, text |-> d.content] : d \in docs}]

\* getAllDocuments: const result = await client.query(query, [limit, offset]),
\* the release of the client and the answer of the route
ListQuery ==
  /\ req.kind \in {"stats", "documents"} /\ req.pc = "list_query"
  /\ \/ /\ req' = [req EXCEPT !.pc = "done"]
        /\ resp' = ListDone(req, documents)
     \/ /\ req' = Throw(req, "query")
        /\ resp' = ErrorResponse(req.kind)
  /\ poolOut' = poolOut - 1
  /\ UNCHANGED << documents, nextSerial, calls >>
  /\ UNCHANGED << chunkVars, clientVars >>

\* statistics requests, with the inserts and deletes of other requests
SpecStats ==
  Init /\ [][ \/ StatsRequest \/ InfoConnect \/ InfoCount \/ InfoVectorCount \/ InfoIndex
              \/ ListConnect \/ ListQuery
              \/ OtherInsert \/ OtherDelete ]_vars

----------------------------------------------------------------------------
(* pgClient.ts: saveDocument *)

\* a call of saveDocument(title, content)
SaveCall ==
  /\ CanStart
  /\ req' = [NoReq EXCEPT !.kind = "save", !.pc = "save_connect",
                          !.docId = "saved", !.docText = <<"saved", 1>>]
  /\ calls' = NoCalls
  /\ resp' = NoResp
  /\ UNCHANGED << documents, nextSerial, poolOut >>
  /\ UNCHANGED << chunkVars, clientVars >>

\* saveDocument: const client = await pool.connect()
SaveConnect ==
  /\ req.kind = "save" /\ req.pc = "save_connect"
  /\ \/ /\ poolOut' = poolOut + 1
        /\ req' = [req EXCEPT !.pc = "save_embed"]
     \/ /\ poolOut' = poolOut
        /\ req' = Throw(req, "connect")
  /\ UNCHANGED << documents, nextSerial, calls, resp >>
  /\ UNCHANGED << chunkVars, clientVars >>

\* saveDocument: const embedding = await embedText(content)
SaveEmbed ==
  /\ req.kind = "save" /\ req.pc = "save_embed"
  /\ calls' = [calls EXCEPT !.embed = @ + 1]
  /\ \/ /\ \E v \in Vectors : req' = [req EXCEPT !.pc = "save_insert", !.queryEmbedding = v]
        /\ poolOut' = poolOut
     \/ /\ req' = Throw(req, "embed")
        /\ poolOut' = poolOut - 1
  /\ UNCHANGED << documents, nextSerial, resp >>
  /\ UNCHANGED << chunkVars, clientVars >>

\* saveDocument: const result = await client.query(INSERT ... RETURNING id,
\* created_at), the return of the id and the release of the client
SaveInsert ==
  /\ req.kind = "save" /\ req.pc = "save_insert"
  /\ \/ /\ nextSerial <= MaxSerial
        /\ nextSerial' = nextSerial + 1
        /\ IF InsertConflicts(documents, nextSerial)
           THEN /\ documents' = documents
                /\ req' = Throw(req, "conflict")
           ELSE /\ documents' = documents \cup
                     {InsertedRow(nextSerial, req.docId, req.docText, req.queryEmbedding)}
                /\ req' = [req EXCEPT !.pc = "done", !.insertedIds = <<nextSerial>>]
     \/ /\ req' = Throw(req, "query")
        /\ UNCHANGED << documents, nextSerial >>
  /\ poolOut' = poolOut - 1
  /\ UNCHANGED << calls, resp >>
  /\ UNCHANGED << chunkVars, clientVars >>

----------------------------------------------------------------------------
(* index.ts: DELETE /api/documents/:id and DELETE /api/documents, with     *)
(* pgClient.ts: deleteDocument and deleteMultipleDocuments                 *)

\* DELETE /api/documents/:id up to its first await (deleteDocument)
DeleteRequest ==
  /\ CanStart
  /\ \E id \in UpsertIds :
       req' = [NoReq EXCEPT !.kind = "delete", !.pc = "del_connect", !.docId = id]
  /\ calls' = NoCalls
  /\ resp' = NoResp
  /\ UNCHANGED << documents, nextSerial, poolOut >>
  /\ UNCHANGED << chunkVars, clientVars >>

\* deleteDocument: const client = await pool.connect()
DeleteConnect ==
  /\ req.kind = "delete" /\ req.pc = "del_connect"
  /\ \/ /\ poolOut' = poolOut + 1
        /\ req' = [req EXCEPT !.pc = "del_query"]
        /\ resp' = resp
     \/ /\ poolOut' = poolOut
        /\ req' = Throw(req, "connect")
        /\ resp' = ErrorResponse(req.kind)
  /\ UNCHANGED << documents, nextSerial, calls >>
  /\ UNCHANGED << chunkVars, clientVars >>

\* res.json({ success: true, message })
DeleteDone(r) ==
  [req |-> [r EXCEPT !.pc = "done"], resp |-> [NoResp EXCEPT !.status = 200]]

\* deleteDocument: await client.query('DELETE FROM documents WHERE id = $1',
\* [parseInt(id)]), the release of the client and the answer of the route;
\* the statement is rejected when parseInt(id) is NaN
DeleteQuery ==
  /\ req.kind = "delete" /\ req.pc = "del_query"
  /\ \/ /\ IsNumericId(req.docId)
        /\ documents' = {d \in documents : d.id # ParseInt(req.docId)}
        /\ req' = DeleteDone(req).req
        /\ resp' = DeleteDone(req).resp
     \/ /\ documents' = documents
        /\ req' = Throw(req, "query")
        /\ resp' = ErrorResponse(req.kind)
  /\ poolOut' = poolOut - 1
  /\ UNCHANGED << nextSerial, calls >>
  /\ UNCHANGED << chunkVars, clientVars >>

\* the arrays of ids requests are made with
DeleteIdLists ==
  {<<>>} \cup { <<id>> : id \in UpsertIds }
         \cup { <<id1, id2>> : id1 \in {"1"}, id2 \in UpsertIds \ {"1"} }

\* ids.map(id => parseInt(id)).filter(id => !isNaN(id)), as a set
NumericIds(ids) == { ParseInt(ids[i]) : i \in {j \in 1..Len(ids) : IsNumericId(ids[j])} }

\* DELETE /api/documents up to its first await (deleteMultipleDocuments):
\* 400 when ids is missing, not an array or empty
DeleteManyRequest ==
  /\ CanStart
  /\ \E ids \in DeleteIdLists :
       IF Len(ids) = 0
       THEN /\ req' = [NoReq EXCEPT !.kind = "deleteMany", !.pc = "done"]
            /\ resp' = [NoResp EXCEPT !.status = 400, !.error = "ids are required"]
       ELSE /\ req' = [NoReq EXCEPT !.kind = "deleteMany", !.pc = "delm_connect",
                                    !.ids = ids]
            /\ resp' = NoResp
  /\ calls' = NoCalls
  /\ UNCHANGED << documents, nextSerial, poolOut >>
  /\ UNCHANGED << chunkVars, clientVars >>

\* AfterDeleteConnect with the early return leaving before the finally block
AfterDeleteConnect_ReturnKeepsClient(r, out) ==
  IF NumericIds(r.ids) = {}
  THEN [req |-> DeleteDone(r).req, resp |-> DeleteDone(r).resp, poolOut |-> out + 1]
  ELSE [req |-> [r EXCEPT !.pc = "delm_query"], resp |-> NoResp, poolOut |-> out + 1]

\* deleteMultipleDocuments after pool.connect() answered, up to its next
\* await: without a numeric id it returns at once, through the finally block
\* that releases the client, and the route answers
AfterDeleteConnect(r, out) ==
  IF NumericIds(r.ids) = {}
  THEN [req |-> DeleteDone(r).req, resp |-> DeleteDone(r).resp, poolOut |-> out + 1 - 1]
  ELSE [req |-> [r EXCEPT !.pc = "delm_query"], resp |-> NoResp, poolOut |-> out + 1]

\* deleteMultipleDocuments: const client = await pool.connect()
DeleteManyConnect ==
  /\ req.kind = "deleteMany" /\ req.pc = "delm_connect"
  /\ \/ /\ poolOut' = AfterDeleteConnect(req, poolOut).poolOut
        /\ req' = AfterDeleteConnect(req, poolOut).req
        /\ resp' = AfterDeleteConnect(req, poolOut).resp
     \/ /\ poolOut' = poolOut
        /\ req' = Throw(req, "connect")
        /\ resp' = ErrorResponse(req.kind)
  /\ UNCHANGED << documents, nextSerial, calls >>
  /\ UNCHANGED << chunkVars, clientVars >>

\* deleteMultipleDocuments: await client.query('DELETE FROM documents WHERE
\* id = ANY($1)', [numericIds]), the release of the client and the answer
DeleteManyQuery ==
  /\ req.kind = "deleteMany" /\ req.pc = "delm_query"
  /\ \/ /\ documents' = {d \in documents : d.id \notin NumericIds(req.ids)}
        /\ req' = DeleteDone(req).req
        /\ resp' = DeleteDone(req).resp
     \/ /\ documents' = documents
        /\ req' = Throw(req, "query")
        /\ resp' = ErrorResponse(req.kind)
  /\ poolOut' = poolOut - 1
  /\ UNCHANGED << nextSerial, calls >>
  /\ UNCHANGED << chunkVars, clientVars >>

----------------------------------------------------------------------------
(* The operations of pgClient.ts, one request at a time *)

\* every operation of pgClient.ts behind its caller, one request at a time
SpecPool ==
  Init /\ [][ \/ SearchRequest \/ SearchConnect \/ SearchEmbed \/ SearchQuery \/ SearchRetry
              \/ UploadRequest \/ UploadProcess \/ UploadConnect \/ UploadEmbed \/ UploadInsert
              \/ UpsertRequestWith({"1", "notes"}, {<<"text", 1>>})
              \/ UpsertConnect \/ UpsertEmbed \/ UpsertQuery
              \/ SaveCall \/ SaveConnect \/ SaveEmbed \/ SaveInsert
              \/ DeleteRequest \/ DeleteConnect \/ DeleteQuery
              \/ DeleteManyRequest \/ DeleteManyConnect \/ DeleteManyQuery
              \/ DocumentsRequest \/ StatsRequest
              \/ InfoConnect \/ InfoCount \/ InfoVectorCount \/ InfoIndex
              \/ ListConnect \/ ListQuery ]_vars

----------------------------------------------------------------------------
(* Two uploads of files with the same filename *)

\* the rows the upload just answered has stored
RowsInserted(r, docs) ==
  {d \in docs : \E j \in 1..Len(r.insertedIds) : d.id = r.insertedIds[j]}

\* POST /api/upload of a file with the filename of the upload just answered,
\* up to its first await; firstUpload keeps what the first upload reported and
\* stored
UploadAgain ==
  /\ req.kind = "upload" /\ req.pc = "done" /\ resp.status = 200
  /\ req.firstUpload = NoUpload
  /\ req' = [NoReq EXCEPT !.kind = "upload", !.pc = "process",
                          !.filename = req.filename,
                          !.firstUpload = [chunkIds |-> resp.chunkIds,
                                           rows |-> RowsInserted(req, documents)]]
  /\ resp' = NoResp
  /\ calls' = NoCalls
  /\ UNCHANGED << documents, nextSerial, poolOut >>
  /\ UNCHANGED << chunkVars, clientVars >>

\* uploads, and a second upload under the filename of the first
SpecUpload ==
  Init /\ [][ \/ UploadRequest \/ UploadAgain
              \/ UploadProcess \/ UploadConnect \/ UploadEmbed \/ UploadInsert ]_vars

----------------------------------------------------------------------------
(* fileProcessor.ts: processUploadedFile *)

\* chunkText(extractedText, 1500, 150)
ProcessChunkSize == 1500
ProcessOverlapSize == 150

\* the MIME types the function is called with: the three it supports, one it
\* does not, and none
Mimetypes == {"application/pdf", "text/plain", "text/markdown", "image/png", ""}

\* extractTextFromPDF and extractTextFromTextFile: the text of the file, or an
\* error; a text file must hold more than whitespace, a PDF must parse
ExtractText(mimetype, content, parsed) ==
  IF mimetype = "application/pdf"
  THEN IF Len(content) = 0 \/ ~parsed
       THEN [ok |-> FALSE, text |-> <<>>]
       ELSE [ok |-> TRUE, text |-> content]
  ELSE IF Len(Trim(content)) = 0
       THEN [ok |-> FALSE, text |-> <<>>]
       ELSE [ok |-> TRUE, text |-> content]

\* processUploadedFile up to its return or throw: what it threw, whether the
\* throw or return happened inside the try block, and the chunks
ProcessOutcome(filename, mimetype, content, parsed) ==
  IF filename = "" \/ mimetype = ""
  THEN [failed |-> "missing parameter", inTry |-> FALSE, chunks |-> <<>>]
  ELSE IF Len(content) = 0
  THEN [failed |-> "empty file", inTry |-> FALSE, chunks |-> <<>>]
  ELSE IF mimetype \notin {"application/pdf", "text/plain", "text/markdown"}
  THEN [failed |-> "unsupported type", inTry |-> TRUE, chunks |-> <<>>]
  ELSE LET extracted == ExtractText(mimetype, content, parsed) IN
       IF ~extracted.ok
       THEN [failed |-> "extraction", inTry |-> TRUE, chunks |-> <<>>]
       ELSE IF Len(Trim(extracted.text)) = 0
       THEN [failed |-> "no text", inTry |-> TRUE, chunks |-> <<>>]
       ELSE LET cs == chunkText(extracted.text, ProcessChunkSize, ProcessOverlapSize) IN
            IF Len(cs) = 0
            THEN [failed |-> "no chunks", inTry |-> TRUE, chunks |-> <<>>]
            ELSE [failed |-> "none", inTry |-> TRUE, chunks |-> cs]

\* a call of processUploadedFile(filePath, originalName, mimetype) with the
\* temp file at filePath; the finally block of its try statement runs
\* fs.unlinkSync(filePath), whose error is logged and swallowed
ProcessUploadedFile ==
  /\ req.kind = "file" /\ req.pc = "process_file"
  /\ \E parsed \in BOOLEAN, unlinked \in BOOLEAN :
       LET out == ProcessOutcome(req.filename, req.mimetype, text, parsed) IN
         /\ req' = [req EXCEPT !.pc = "done", !.failed = out.failed,
                               !.nChunks = Len(out.chunks),
                               !.tempFile = ~(out.inTry /\ unlinked),
                               !.unlinkFailed = out.inTry /\ ~unlinked]
         /\ finalChunks' = out.chunks
  /\ chunkPc' = "returned"
  /\ UNCHANGED << text, chunkSize, overlapSize, chunks >>
  /\ UNCHANGED << documents, nextSerial, poolOut, calls, resp >>
  /\ UNCHANGED clientVars

\* the uploaded temp files: any content up to MaxFileLen characters
InitFile ==
  /\ text \in StringsUpTo(MaxFileLen)
  /\ chunkSize = ProcessChunkSize /\ overlapSize = ProcessOverlapSize
  /\ chunks = <<>> /\ finalChunks = <<>> /\ chunkPc = "call"
  /\ documents = {} /\ nextSerial = 1 /\ poolOut = 0
  /\ calls = NoCalls /\ resp = NoResp
  /\ ClientIdle
  /\ \E filename \in Filenames, mimetype \in Mimetypes :
       req = [NoReq EXCEPT !.kind = "file", !.pc = "process_file",
                           !.filename = filename, !.mimetype = mimetype,
                           !.tempFile = TRUE]

\* one call of processUploadedFile for every temp file
SpecFile == InitFile /\ [][ProcessUploadedFile]_vars

----------------------------------------------------------------------------
(* RAGChat: handleAskQuestion, handleKeyPress and the submit button *)

\* handleAskQuestion up to its await: the two client-side checks, then
\* setLoading(true), setError(''), setResponse(null) and the call of
\* askQuestion(question)
handleAskQuestion(c) ==
  IF Len(Trim(c.question)) = 0
  THEN [c EXCEPT !.error = "enter a question"]
  ELSE IF Len(c.question) < MinQuestionLength
  THEN [c EXCEPT !.error = "question too short"]
  ELSE [c EXCEPT !.loading = TRUE, !.error = "", !.response = NoAnswer,
                 !.submitted = @ + 1,
                 !.inFlight = @ \cup {[id |-> c.submitted + 1, question |-> c.question]}]

\* onChange of the textarea: setQuestion(e.target.value)
ChatType ==
  /\ \E q \in Questions : ragChat' = [ragChat EXCEPT !.question = q]
  /\ UNCHANGED << documentManager, fileUpload >>
  /\ UNCHANGED << chunkVars, serverVars >>

\* onClick of the button, which is disabled={loading || !question.trim()}
ChatClick ==
  /\ ~ragChat.loading /\ Len(Trim(ragChat.question)) > 0
  /\ ragChat.submitted < MaxAsks
  /\ ragChat' = handleAskQuestion(ragChat)
  /\ UNCHANGED << documentManager, fileUpload >>
  /\ UNCHANGED << chunkVars, serverVars >>

\* handleKeyPress on Enter with Ctrl or Cmd: handleAskQuestion()
ChatCtrlEnter ==
  /\ ragChat.submitted < MaxAsks
  /\ ragChat' = handleAskQuestion(ragChat)
  /\ UNCHANGED << documentManager, fileUpload >>
  /\ UNCHANGED << chunkVars, serverVars >>

\* the await of askQuestion ends for one of the calls: setResponse(ragResponse)
\* or setError(...), then setLoading(false) in the finally block
ChatAnswered ==
  /\ \E r \in ragChat.inFlight :
       \/ ragChat' = [ragChat EXCEPT !.inFlight = @ \ {r}, !.loading = FALSE,
                                     !.response = r]
       \/ ragChat' = [ragChat EXCEPT !.inFlight = @ \ {r}, !.loading = FALSE,
                                     !.error = "failed to generate the answer"]
  /\ UNCHANGED << documentManager, fileUpload >>
  /\ UNCHANGED << chunkVars, serverVars >>

\* the events of RAGChat and the answers of its requests
SpecChat ==
  Init /\ [][ \/ ChatType \/ ChatClick \/ ChatCtrlEnter \/ ChatAnswered ]_vars

----------------------------------------------------------------------------
(* DocumentManager: loadDocuments and handleDeleteDocument, with the        *)
(* statements the backend runs for their requests                          *)

\* loadDocuments up to its await, called by the effect on refreshTrigger and
\* by the refresh button: setLoading(true), setError(''), getDocuments(100, 0)
ManagerLoad ==
  /\ documentManager.started < MaxLoads
  /\ documentManager' =
       [documentManager EXCEPT
          !.loading = TRUE, !.error = "", !.started = @ + 1,
          !.loads = @ \cup {[id |-> documentManager.started + 1, phase |-> "sent",
                             documents |-> {}]}]
  /\ UNCHANGED << ragChat, fileUpload >>
  /\ UNCHANGED << chunkVars, serverVars >>

\* the backend answers a GET /api/documents: the SELECT of getAllDocuments
\* reads the rows stored at that moment, or the request fails
ServerList ==
  /\ \E l \in documentManager.loads :
       /\ l.phase = "sent"
       /\ \/ documentManager' =
               [documentManager EXCEPT
                  !.loads = (@ \ {l}) \cup
                     {[l EXCEPT !.phase = "answered",
                                !.documents = {d.id : d \in documents}]}]
          \/ documentManager' =
               [documentManager EXCEPT
                  !.loads = (@ \ {l}) \cup {[l EXCEPT !.phase = "failed"]}]
  /\ UNCHANGED << ragChat, fileUpload >>
  /\ UNCHANGED << chunkVars, serverVars >>

\* the await of getDocuments ends: setDocuments(result.documents) or
\* setError(...), then setLoading(false) in the finally block
ManagerLoaded ==
  /\ \E l \in documentManager.loads :
       /\ l.phase # "sent"
       /\ documentManager' =
            IF l.phase = "answered"
            THEN [documentManager EXCEPT !.loads = @ \ {l}, !.loading = FALSE,
                                         !.documents = l.documents]
            ELSE [documentManager EXCEPT !.loads = @ \ {l}, !.loading = FALSE,
                                         !.error = "failed to load the documents"]
  /\ UNCHANGED << ragChat, fileUpload >>
  /\ UNCHANGED << chunkVars, serverVars >>

\* handleDeleteDocument(doc.id) up to its await, from the delete button of a
\* listed document (the list is rendered when loading is false), confirmed
ManagerDelete ==
  /\ ~documentManager.loading
  /\ \E id \in documentManager.documents :
       documentManager' =
         [documentManager EXCEPT !.deletes = @ \cup {[docId |-> id, phase |-> "sent"]}]
  /\ UNCHANGED << ragChat, fileUpload >>
  /\ UNCHANGED << chunkVars, serverVars >>

\* the backend answers a DELETE /api/documents/:id: the DELETE of
\* deleteDocument removes the row if there is one, or the request fails
ServerDelete ==
  /\ \E x \in documentManager.deletes :
       /\ x.phase = "sent"
       /\ \/ /\ documents' = {d \in documents : d.id # x.docId}
             /\ documentManager' =
                  [documentManager EXCEPT
                     !.deletes = (@ \ {x}) \cup {[x EXCEPT !.phase = "deleted"]}]
          \/ /\ documents' = documents
             /\ documentManager' =
                  [documentManager EXCEPT
                     !.deletes = (@ \ {x}) \cup {[x EXCEPT !.phase = "failed"]}]
  /\ UNCHANGED << nextSerial, poolOut, req, calls, resp >>
  /\ UNCHANGED << ragChat, fileUpload >>
  /\ UNCHANGED chunkVars

\* the await of deleteDocument ends: setDocuments(docs => docs.filter(doc =>
\* doc.id !== id)), or setError(...)
ManagerDeleted ==
  /\ \E x \in documentManager.deletes :
       /\ x.phase # "sent"
       /\ documentManager' =
            IF x.phase = "deleted"
            THEN [documentManager EXCEPT !.deletes = @ \ {x},
                                         !.documents = @ \ {x.docId},
                                         !.removed = @ \cup {x.docId}]
            ELSE [documentManager EXCEPT !.deletes = @ \ {x},
                                         !.error = "failed to delete"]
  /\ UNCHANGED << ragChat, fileUpload >>
  /\ UNCHANGED << chunkVars, serverVars >>

\* DocumentManager over a store that other requests add documents to
SpecManager ==
  Init /\ [][ \/ ManagerLoad \/ ServerList \/ ManagerLoaded
              \/ ManagerDelete \/ ServerDelete \/ ManagerDeleted
              \/ OtherInsert ]_vars

----------------------------------------------------------------------------
(* FileUpload: handleFileUpload, with the POST /api/upload it sends *)

\* the files selected: of a supported type or not, within 10MB or larger
SelectedFiles ==
  [name : Filenames, type : {"text/plain", "image/png"}, tooLarge : BOOLEAN]

\* handleFileUpload up to its return or its await: the checks of type and
\* size, then setUploading(true), setError(''), setUploadResult('') and the
\* call of uploadFile(file)
handleFileUpload(u, file) ==
  IF file.type \notin {"application/pdf", "text/plain", "text/markdown"}
  THEN [u EXCEPT !.error = "unsupported file type"]
  ELSE IF file.tooLarge
  THEN [u EXCEPT !.error = "file too large"]
  ELSE [u EXCEPT !.uploading = TRUE, !.error = "", !.uploadResult = "",
                 !.inFlight = TRUE]

\* onChange of the file input, which is disabled={uploading}; the request of
\* an accepted file reaches the backend
SelectFile ==
  /\ ~fileUpload.uploading
  /\ \E file \in SelectedFiles :
       /\ fileUpload' = handleFileUpload(fileUpload, file)
       /\ IF fileUpload'.inFlight
          THEN /\ CanStart
               /\ req' = [NoReq EXCEPT !.kind = "upload", !.pc = "process",
                                       !.filename = file.name]
               /\ resp' = NoResp
               /\ calls' = NoCalls
          ELSE UNCHANGED << req, resp, calls >>
  /\ UNCHANGED << documents, nextSerial, poolOut >>
  /\ UNCHANGED << ragChat, documentManager >>
  /\ UNCHANGED chunkVars

\* the await of uploadFile ends with the response of the backend:
\* setUploadResult(...) or setError(...), then setUploading(false)
UploadAnswered ==
  /\ fileUpload.inFlight
  /\ req.kind = "upload" /\ req.pc = "done"
  /\ fileUpload' =
       IF resp.status = 200
       THEN [fileUpload EXCEPT !.uploading = FALSE, !.inFlight = FALSE,
               !.uploadResult = req.filename \o " registered in "
                                   \o ToString(resp.totalChunks) \o " chunks"]
       ELSE [fileUpload EXCEPT !.uploading = FALSE, !.inFlight = FALSE,
               !.error = "upload failed"]
  /\ UNCHANGED << ragChat, documentManager >>
  /\ UNCHANGED << chunkVars, serverVars >>

\* the await of uploadFile ends without a response (network error, or the
\* timeout of the axios instance): setError(...), then setUploading(false)
UploadLost ==
  /\ fileUpload.inFlight
  /\ fileUpload' = [fileUpload EXCEPT !.uploading = FALSE, !.inFlight = FALSE,
                                      !.error = "upload failed"]
  /\ UNCHANGED << ragChat, documentManager >>
  /\ UNCHANGED << chunkVars, serverVars >>

\* the events of FileUpload and the backend handling its request
SpecFileUpload ==
  Init /\ [][ \/ SelectFile \/ UploadAnswered \/ UploadLost
              \/ UploadProcess \/ UploadConnect \/ UploadEmbed \/ UploadInsert ]_vars

----------------------------------------------------------------------------
(* Claims about answer synthesis and retrieval, checked under Spec *)

\* the rows read by the statement whose rows searchSimilarDocuments returned
LastSeen == IF req.usedFallback THEN req.seenRetry ELSE req.seenFirst

\* no row read by the first query is more similar to the query than the threshold
NoneAboveThreshold ==
  \A d \in req.seenFirst : Similarity(d.embedding, req.queryEmbedding) <= req.threshold

\* C1: when the retrieval of an ask request returned zero results, the request
\* is answered with the fixed no-information answer and no sources, and the
\* language model was never called
C1_NoResultsNoLLM ==
  (req.kind = "ask" /\ req.searched /\ Len(req.results) = 0) =>
     /\ calls.llm = 0
     /\ req.pc = "done"
     /\ resp.status = 200
     /\ resp.answer = NoInfoAnswer
     /\ resp.sources = <<>>

C1_Witness ==
  /\ req.kind = "ask" /\ req.searched /\ Len(req.results) = 0
  /\ req.pc = "done" /\ resp.answer = NoInfoAnswer

\* C2: an ask request whose question has fewer than 5 characters ends at once
\* with the validation error, having called neither the embedding service, nor
\* the document store, nor the language model
C2_ShortQuestionRejected ==
  (req.kind = "ask" /\ Len(req.question) < MinQuestionLength) =>
     /\ req.pc = "done"
     /\ resp.status = 400
     /\ resp.error \in {"empty", "too short"}
     /\ calls = NoCalls
     /\ ~req.searched /\ req.failed = "none" /\ req.queryEmbedding = NoVector

C2_Witness ==
  /\ req.kind = "ask" /\ Len(req.question) = MinQuestionLength - 1
  /\ Len(Trim(req.question)) = Len(req.question)
  /\ resp.status = 400 /\ documents # {}

\* C3: when the first query of a retrieval with limit >= 1 read a non-empty
\* corpus with no row above the threshold, the fallback ran and the call
\* returned min(limit, corpus size) rows of the corpus the fallback read, hence
\* a non-empty sequence unless the corpus was emptied in between
C3_FallbackReturnsUpToLimit ==
  (InSearch /\ req.searched /\ req.limit >= 1
     /\ req.seenFirst # {} /\ NoneAboveThreshold) =>
     /\ req.usedFallback
     /\ calls.search = 2
     /\ Len(req.results) = Min(req.limit, Cardinality(req.seenRetry))
     /\ req.seenRetry # {} => Len(req.results) >= 1
     /\ req.kind = "search" => resp.status = 200 /\ resp.results = req.results

C3_Witness ==
  /\ req.kind = "search" /\ req.searched /\ req.usedFallback
  /\ req.seenFirst # {} /\ req.seenRetry = req.seenFirst /\ NoneAboveThreshold
  /\ Cardinality(req.seenRetry) > req.limit
  /\ Len(req.results) = req.limit

\* C4: a retrieval that returned, returned the empty sequence exactly when the
\* corpus read by its last query held no rows; an empty sequence is returned
\* only after the fallback, too, found nothing
C4_EmptyIffEmptyCorpus ==
  (InSearch /\ req.searched /\ req.limit >= 1 /\ req.threshold \in 0..100) =>
     /\ (Len(req.results) = 0) <=> (LastSeen = {})
     /\ Len(req.results) = 0 => req.usedFallback

C4_Witness ==
  /\ req.kind = "search" /\ req.searched /\ Len(req.results) = 0
  /\ req.usedFallback /\ req.seenFirst = {} /\ req.seenRetry = {}

\* C8: when the embedding call of a retrieval failed, the request ended with
\* the error: no query was sent to the document store, and no results, empty
\* or not, were returned
C8_EmbedFailurePropagates ==
  (InSearch /\ req.failed = "embed") =>
     /\ req.pc = "done"
     /\ calls.embed = 1 /\ calls.search = 0 /\ calls.llm = 0
     /\ ~req.searched /\ req.results = <<>>
     /\ resp.status = 500
     /\ resp.results = <<>> /\ resp.answer = "" /\ resp.sources = <<>>

C8_Witness ==
  /\ req.kind = "search" /\ req.failed = "embed" /\ resp.status = 500
  /\ documents # {}

\* C9: an ask request in which the retrieval or the language model call failed
\* ended with the synthesis failure and carries no answer and no sources
C9_FailureNoAnswer ==
  (req.kind = "ask" /\ req.failed # "none") =>
     /\ req.pc = "done"
     /\ resp.status = 500
     /\ resp.error = "answer generation failed"
     /\ resp.answer = "" /\ resp.sources = <<>>

C9_Witness ==
  /\ req.kind = "ask" /\ req.failed = "llm" /\ Len(req.results) > 0
  /\ resp.status = 500

\* the calls of upsertDocumentWithMetadata made so far are those for chunks
\* 1..chunkIndex, in this order
AttemptedInOrder(r) ==
  /\ Len(r.attempted) = r.chunkIndex
  /\ \A j \in 1..Len(r.attempted) : r.attempted[j] = j

\* the progress of an upload with n chunks
UploadProgress(r, rs) ==
  (r.kind = "upload" /\ r.nChunks > 0) =>
     /\ AttemptedInOrder(r)
     /\ r.chunkIndex <= r.nChunks
     /\ IF r.failed # "none"
        THEN /\ r.pc = "done" /\ rs.status = 500
             /\ Len(r.insertedIds) = r.chunkIndex - 1
        ELSE IF r.pc = "done"
        THEN /\ rs.status = 200
             /\ Len(r.insertedIds) = r.nChunks
        ELSE Len(r.insertedIds) = r.chunkIndex - 1

\* a step of the upload handler removes no row, and adds one exactly when it
\* stored the current chunk: the row of that chunk
UploadStep ==
  (req.kind = "upload" /\ req' # req /\ req'.kind = "upload" /\ ~CanStart) =>
     IF Len(req'.insertedIds) > Len(req.insertedIds)
     THEN /\ req'.insertedIds = Append(req.insertedIds, nextSerial)
          /\ documents' = documents \cup
               {d \in documents' : d.id = nextSerial
                                   /\ d.content = <<req.filename, req.chunkIndex>>}
          /\ documents' # documents
     ELSE documents' = documents

\* C10: an upload calls embed-and-store once per chunk in index order; after a
\* failure at chunk k the request ended with an error, the rows of chunks
\* 1..k-1 were stored and not removed by the request, and no row of chunks
\* k..n was stored
C10_PartialIngestion == [][UploadProgress(req', resp') /\ UploadStep]_vars

C10_Witness ==
  /\ req.kind = "upload" /\ req.failed \in {"embed", "insert"}
  /\ req.nChunks = 2 /\ req.chunkIndex = 2 /\ Len(req.insertedIds) = 1
  /\ \E d \in documents : d.id = req.insertedIds[1] /\ d.content = <<req.filename, 1>>
  /\ \A d \in documents : d.content # <<req.filename, 2>>
  /\ resp.status = 500

----------------------------------------------------------------------------
(* Claims about retrieval, checked under Spec *)

\* C12: every sequence searchSimilarDocuments returns, from the first query or
\* from the retry, is in non-increasing score order and has at most limit
\* results
C12_OrderedAndCapped ==
  (InSearch /\ req.searched) =>
    /\ Len(req.results) <= req.limit
    /\ \A i, j \in 1..Len(req.results) :
         i < j => req.results[i].score >= req.results[j].score

C12_Witness ==
  /\ InSearch /\ req.searched
  /\ Len(req.results) = req.limit
  /\ Cardinality(LastSeen) > req.limit
  /\ \E d \in LastSeen :
       Similarity(d.embedding, req.queryEmbedding) < req.results[req.limit].score

\* some row read by the first query is more similar to the query than the threshold
SomeAboveThreshold ==
  \E d \in req.seenFirst : Similarity(d.embedding, req.queryEmbedding) > req.threshold

\* C13: when a stored vector is more similar to the query than the threshold,
\* the retry is not run and every result has a score above the threshold; a
\* result with a score at or below the threshold is returned only when no
\* stored vector exceeds the threshold
C13_ThresholdRespected ==
  (InSearch /\ req.searched) =>
    /\ SomeAboveThreshold =>
         /\ ~req.usedFallback
         /\ calls.search = 1
         /\ \A i \in 1..Len(req.results) : req.results[i].score > req.threshold
    /\ (\E i \in 1..Len(req.results) : req.results[i].score <= req.threshold) =>
         /\ req.usedFallback
         /\ NoneAboveThreshold

C13_Witness ==
  /\ InSearch /\ req.searched /\ ~req.usedFallback
  /\ SomeAboveThreshold
  /\ \E d \in req.seenFirst :
       Similarity(d.embedding, req.queryEmbedding) <= req.threshold
  /\ Len(req.results) > 0

\* C14: no external call is made again.  A request calls the embedding service
\* once (never before the client is checked out, exactly once from then on),
\* searches the store at most twice, the second time only after the first
\* query returned no row, and calls the language model at most once; a failed
\* call ends the request with the calls made so far.
C14_NoRetry ==
  InSearch =>
    /\ calls.embed <= 1 /\ calls.search <= 2 /\ calls.llm <= 1
    /\ (req.pc \in {"query", "retry", "llm"} \/ req.searched) => calls.embed = 1
    /\ calls.search = 2 => NoneAboveThreshold
    /\ req.kind = "search" => calls.llm = 0
    /\ req.failed # "none" =>
         /\ req.pc = "done"
         /\ calls = CASE req.failed = "connect" -> NoCalls
                      [] req.failed = "embed" -> [embed |-> 1, search |-> 0, llm |-> 0]
                      [] req.failed = "query" -> [embed |-> 1, search |-> 1, llm |-> 0]
                      [] req.failed = "retry" -> [embed |-> 1, search |-> 2, llm |-> 0]
                      [] req.failed = "llm" ->
                           [embed |-> 1,
                            search |-> IF req.usedFallback THEN 2 ELSE 1,
                            llm |-> 1]

C14_Witness ==
  /\ req.kind = "ask" /\ req.pc = "done" /\ req.failed = "none"
  /\ req.usedFallback
  /\ calls = [embed |-> 1, search |-> 2, llm |-> 1]
  /\ resp.status = 200

----------------------------------------------------------------------------
(* Claims about the sources and the context of an answer, checked under SpecAsk *)

\* generateRAGAnswer returned an answer made by the language model
Synthesized ==
  /\ req.kind = "ask" /\ req.pc = "done" /\ req.failed = "none"
  /\ calls.llm = 1 /\ resp.status = 200

\* C11: after a successful synthesis the sources are as many as the search
\* results and in their order, each with the result's id, score and full text
\* and a preview that is the text when it has at most 150 characters and
\* otherwise its first 150 characters followed by the truncation marker
C11_SourcesMirrorResults ==
  Synthesized =>
    /\ Len(resp.sources) = Len(req.results)
    /\ \A i \in 1..Len(req.results) :
         LET source == resp.sources[i]
             result == req.results[i]
         IN /\ DOMAIN source = {"id", "score", "text", "chunk_preview"}
            /\ source.id = result.id
            /\ source.score = result.score
            /\ source.text = result.text
            /\ IF Len(result.text) <= 150
               THEN source.chunk_preview = result.text
               ELSE /\ Len(source.chunk_preview) = 150 + 3
                    /\ \A p \in 1..150 : source.chunk_preview[p] = result.text[p]
                    /\ \A p \in 151..153 : source.chunk_preview[p] = "."

C11_Witness ==
  /\ Synthesized
  /\ Len(resp.sources) >= 2
  /\ \E i, j \in 1..Len(req.results) :
       /\ Len(req.results[i].text) = 150
       /\ Len(req.results[j].text) > 150
       /\ resp.sources[j].chunk_preview # req.results[j].text

\* tokens of the label line of a block
LabelTokens == Len(BlockLabel(0, 1))

RECURSIVE BlockStart(_, _)
\* where block i begins in a context made of blocks with the given texts
BlockStart(results, i) ==
  IF i = 1 THEN 1
  ELSE BlockStart(results, i - 1) + LabelTokens + Len(results[i - 1].text)
         + Len(ContextDelimiter)

\* C15: the context built from k search results is exactly k labelled blocks
\* in the order of the results; block i carries the ordinal i and the whole
\* text of result i; the delimiter stands between consecutive blocks and
\* nothing stands before the first block or after the last
C15_ContextBlocks ==
  (req.kind = "ask" /\ req.searched /\ Len(req.results) > 0) =>
    LET k == Len(req.results)
        c == req.context
    IN /\ Cardinality({p \in 1..Len(c) : c[p] = "[source"}) = k
       /\ \A i \in 1..k :
            LET b == BlockStart(req.results, i)
                t == b + LabelTokens
                n == Len(req.results[i].text)
            IN /\ c[b] = "[source" /\ c[b + 1] = ToString(i)
               /\ SubSeq(c, t, t + n - 1) = req.results[i].text
               /\ IF i < k
                  THEN SubSeq(c, t + n, t + n + 6) = << LF, LF, "-", "-", "-", LF, LF >>
                  ELSE Len(c) = t + n - 1

C15_Witness ==
  /\ req.kind = "ask" /\ req.pc = "llm"
  /\ Len(req.results) >= 2
  /\ \E i \in 1..Len(req.results) : Len(req.results[i].text) > PreviewLength
  /\ Len(req.context) > 0

----------------------------------------------------------------------------
(* Claims about question validation, checked under SpecValidate *)

\* C16 as stated: an ask request is answered with the validation error exactly
\* when its question is empty, has fewer than 5 characters or has more than
\* 1000 characters
C16_RejectsByLength ==
  req.kind = "ask" =>
    (resp.status = 400 <=>
       (Len(req.question) = 0 \/ Len(req.question) < 5 \/ Len(req.question) > 1000))

\* C16, amended: an ask request is answered with the validation error, and
\* with the message of the first reason that applies, exactly when its
\* question is empty or blank, has fewer than 5 characters once the blanks at
\* both ends are removed, or has more than 1000 characters as sent; no
\* external call is made for it, and every other question is accepted
C16_RejectsByTrimmedLength ==
  req.kind = "ask" =>
    LET sent == Len(req.question)
        kept == Len(Trim(req.question))
    IN /\ resp.status = 400 <=> (kept = 0 \/ kept < 5 \/ sent > 1000)
       /\ resp.status = 400 =>
            /\ req.pc = "done" /\ calls = NoCalls
            /\ resp.error = IF kept = 0 THEN "empty"
                            ELSE IF kept < 5 THEN "too short" ELSE "too long"
       /\ (kept >= 5 /\ sent <= 1000) => req.pc # "idle"

C16_Witness ==
  /\ req.kind = "ask" /\ resp.status = 400
  /\ Len(req.question) = 1000 + 1
  /\ Len(Trim(req.question)) = 1000 - 1
  /\ resp.error = "too long"

----------------------------------------------------------------------------
(* Claims about chunkText, checked under SpecChunk *)

\* the trimmed paragraphs of the text, as the loop of chunkText sees them
TrimmedParagraphs(t) ==
  [k \in 1..Len(Paragraphs(t)) |-> Trim(Paragraphs(t)[k])]

\* c is one sentence of a paragraph longer than the chunk size, and is itself
\* longer than the chunk size
IsLongSentence(c) ==
  /\ Len(c) > chunkSize
  /\ \E k \in 1..Len(TrimmedParagraphs(text)) :
       LET p == TrimmedParagraphs(text)[k]
       IN /\ Len(p) > chunkSize
          /\ \E m \in 1..Len(splitIntoSentences(p)) : splitIntoSentences(p)[m] = c

StripSpace(s) == SelectSeq(s, LAMBDA c : ~IsSpace(c))

\* C6: the chunks before the overlap step, concatenated in order, hold the
\* characters of the trimmed paragraphs in order, blanks and line feeds aside:
\* nothing is dropped, nothing is repeated
C6_NoTextLost ==
  chunkPc = "returned" =>
     StripSpace(JoinAll(chunks)) = StripSpace(JoinAll(TrimmedParagraphs(text)))

\* the last n characters of s
LastChars(s, n) == SubSeq(s, Len(s) - n + 1, Len(s))

\* C7: with overlapSize > 0 and at least two chunks, the first returned chunk
\* is unchanged and every later one is the last min(overlapSize, length)
\* characters of the previous pre-overlap chunk, a blank line, and its own
\* pre-overlap text
C7_OverlapPrefix ==
  (chunkPc = "returned" /\ overlapSize > 0 /\ Len(chunks) >= 2) =>
     /\ Len(finalChunks) = Len(chunks)
     /\ finalChunks[1] = chunks[1]
     /\ \A i \in 2..Len(chunks) :
          finalChunks[i] =
            LastChars(chunks[i - 1], Min(overlapSize, Len(chunks[i - 1])))
              \o <<LF, LF>> \o chunks[i]

C7_Witness ==
  /\ chunkPc = "returned" /\ overlapSize > 0 /\ Len(chunks) >= 3
  /\ Len(chunks[1]) > overlapSize
  /\ Len(finalChunks[3]) = overlapSize + Len(<<LF, LF>>) + Len(chunks[3])

\* C17: chunkText returns the empty sequence for every empty text and every
\* text of whitespace only, whatever chunkSize and overlapSize are, and
\* returns a sequence of strings for every text
C17_BlankTextNoChunks ==
  chunkPc = "returned" =>
    /\ (\A i \in 1..Len(text) : text[i] \in {SP, LF}) =>
         (finalChunks = <<>> /\ chunks = <<>>)
    /\ \A i \in 1..Len(finalChunks) :
         \A j \in 1..Len(finalChunks[i]) : finalChunks[i][j] \in Alphabet

C17_Witness ==
  /\ chunkPc = "returned"
  /\ Len(text) > 0 /\ Len(text) <= chunkSize
  /\ \A i \in 1..Len(text) : text[i] \in {SP, LF}
  /\ \E i \in 1..Len(text) : text[i] = LF
  /\ overlapSize > 0
  /\ finalChunks = <<>>

RECURSIVE OriginalChunk(_, _, _)
\* returned chunk i without its overlap prefix and separator, the prefix being
\* as long as overlapSize or as the chunk before it without its own prefix
OriginalChunk(returned, i, overlap) ==
  IF i = 1 THEN returned[1]
  ELSE LET prev == OriginalChunk(returned, i - 1, overlap)
       IN Substring(returned[i], Min(overlap, Len(prev)) + Len(<<LF, LF>>))

\* C19: for overlapSize > 0, the returned chunks without their overlap prefix
\* and separator are the chunks chunkText returns for the same text and
\* chunkSize with overlapSize 0: as many, in the same order, the first one
\* untouched, and each prefix is the end of the previous chunk of that
\* sequence, not of the previous returned chunk
C19_OverlapFromOriginal ==
  (chunkPc = "returned" /\ overlapSize > 0) =>
    LET plain == chunkText(text, chunkSize, 0)
    IN /\ Len(finalChunks) = Len(plain)
       /\ \A i \in 1..Len(finalChunks) :
            /\ OriginalChunk(finalChunks, i, overlapSize) = plain[i]
            /\ i = 1 => finalChunks[1] = plain[1]
            /\ i > 1 =>
                 LET n == Min(overlapSize, Len(plain[i - 1]))
                 IN SubSeq(finalChunks[i], 1, n + 2) = LastChars(plain[i - 1], n) \o <<LF, LF>>

C19_Witness ==
  /\ chunkPc = "returned" /\ overlapSize > 0
  /\ Len(finalChunks) >= 3
  /\ overlapSize > Len(chunks[2])
  /\ OriginalChunk(finalChunks, 3, overlapSize) = chunks[3]

----------------------------------------------------------------------------
(* Claims about chunkText, checked under SpecParagraphs *)

\* C18: for the text 'Paragraph one about cats.', a blank line, 'Paragraph two
\* about dogs that is quite long...', with chunkSize 50 and overlapSize 10,
\* chunkText returns exactly two chunks; the first is the first paragraph
\* unchanged and the second begins with the last 10 characters of the first
C18_TwoParagraphExample ==
  ( /\ chunkPc = "returned"
    /\ text = ParagraphOne \o <<LF, LF>> \o ParagraphTwo
    /\ chunkSize = 50 /\ overlapSize = 10 ) =>
    /\ Len(text) = 25 + 2 + 46
    /\ Len(finalChunks) = 2
    /\ finalChunks[1] = ParagraphOne
    /\ SubSeq(finalChunks[2], 1, 10) = LastChars(finalChunks[1], 10)
    /\ SubSeq(finalChunks[2], 1, 10) = << "b", "o", "u", "t", " ", "c", "a", "t", "s", "." >>

C18_Witness ==
  /\ chunkPc = "returned"
  /\ text = ParagraphOne \o <<LF, LF>> \o ParagraphTwo
  /\ chunkSize = 50 /\ overlapSize = 10
  /\ Len(finalChunks) = 2

\* the text is a paragraph that fits a chunk, a paragraph longer than
\* chunkSize and a paragraph that fits a chunk
ShortLongShort ==
  LET ps == TrimmedParagraphs(text)
  IN /\ Len(ps) = 3
     /\ Len(ps[1]) <= chunkSize /\ Len(ps[2]) > chunkSize /\ Len(ps[3]) <= chunkSize

\* C20: when a paragraph longer than chunkSize is split into sentences, the
\* buffer held before it is pushed first, then the full sentence buffers in
\* order; what is left of the sentences is not pushed but becomes the running
\* buffer, and the next paragraph is appended to it after a blank line when
\* the whole fits in chunkSize, and otherwise starts a chunk of its own
C20_ResidualSeedsNextChunk ==
  (chunkPc = "returned" /\ ShortLongShort) =>
    LET ps == TrimmedParagraphs(text)
        packed == PackSentences(splitIntoSentences(ps[2]), 1, <<>>, <<>>, chunkSize)
        full == packed.chunks
        residual == Trim(packed.sentenceChunk)
        m == Len(full)
    IN /\ Len(residual) > 0
       /\ chunks[1] = ps[1]
       /\ SubSeq(chunks, 2, m + 1) = full
       /\ IF Len(residual) + 2 + Len(ps[3]) <= chunkSize
          THEN /\ Len(chunks) = m + 2
               /\ chunks[m + 2] = residual \o <<LF, LF>> \o ps[3]
          ELSE /\ Len(chunks) = m + 3
               /\ chunks[m + 2] = residual
               /\ chunks[m + 3] = ps[3]

C20_Witness ==
  /\ chunkPc = "returned" /\ ShortLongShort
  /\ LET ps == TrimmedParagraphs(text)
         packed == PackSentences(splitIntoSentences(ps[2]), 1, <<>>, <<>>, chunkSize)
     IN /\ Len(packed.chunks) >= 2
        /\ Len(chunks) = Len(packed.chunks) + 2
        /\ chunks[Len(chunks)] = Trim(packed.sentenceChunk) \o <<LF, LF>> \o ps[3]

----------------------------------------------------------------------------
(* Claims about initDatabase, checked under SpecStart *)

\* the start of the server has run initDatabase to its end
InitCompleted == req.kind = "init" /\ req.pc = "done" /\ req.failed = "none"

\* the rows that hold sample i
SampleRows(i) == {d \in documents : d.content = SampleData[i].content}

\* C21: initDatabase inserts the sample documents only the first time: after
\* any number of completed runs of initDatabase each of the three samples is
\* present in exactly one row.
C21_SamplesOnce ==
  InitCompleted => \A i \in 1..Len(SampleData) : Cardinality(SampleRows(i)) = 1

----------------------------------------------------------------------------
(* Claims about upsertDocument, checked under SpecUpsert *)

\* the rows that hold the id
RowsWithId(docs, id) == {d \in docs : d.id = id}

\* the statement of an upsertDocument call with a numeric id has run
NumericUpsertStep ==
  /\ req.kind = "upsert" /\ req.pc = "ups_query" /\ IsNumericId(req.docId)
  /\ req'.pc = "done" /\ req'.failed = "none"

\* C22: upsertDocument with a numeric id is an upsert: after the call exactly
\* one row has that id, it holds the content and the embedding of this (the
\* last) call for the id, and the rows with other ids are unchanged.
C22_NumericUpsert ==
  [][NumericUpsertStep =>
       LET id == ParseInt(req.docId) IN
         /\ RowsWithId(documents', id)
              = { d \in RowsWithId(documents', id) :
                    d.content = req.docText /\ d.embedding = req.queryEmbedding }
         /\ Cardinality(RowsWithId(documents', id)) = 1
         /\ documents' \ RowsWithId(documents', id)
              = documents \ RowsWithId(documents, id)]_vars

\* an upsert has replaced the content of a row that another request inserted
C22_Witness ==
  /\ req.kind = "upsert" /\ req.pc = "done" /\ req.failed = "none"
  /\ IsNumericId(req.docId)
  /\ \E d \in documents :
       /\ d.id = ParseInt(req.docId) /\ d.title = "other"
       /\ d.content = req.docText /\ d.embedding = req.queryEmbedding
  /\ \E d \in documents : d.id # ParseInt(req.docId)

\* C26: an insert that lets the store assign the id never fails because of a
\* primary-key conflict, after any sequence of upserts with explicit numeric
\* ids, store-assigned inserts and deletes.
C26_NoKeyConflict == req.failed # "conflict"

----------------------------------------------------------------------------
(* Claims about getCollectionInfo, checked under SpecStats *)

\* C27: every result of getCollectionInfo satisfies indexedVectorsCount <=
\* vectorsCount <= pointsCount, also when inserts and deletes of other
\* requests interleave with its count queries.
C27_CountsOrdered ==
  /\ req.info.indexedVectorsCount <= req.info.vectorsCount
  /\ req.info.vectorsCount <= req.info.pointsCount

----------------------------------------------------------------------------
(* Claims about the connection pool, checked under SpecPool *)

\* the positions of an operation between pool.connect() and client.release()
HoldingPcs ==
  { "embed", "query", "retry", "up_embed", "up_insert", "ups_embed", "ups_query",
    "save_embed", "save_insert", "del_query", "delm_query",
    "info_count", "info_vectors", "info_index", "list_query" }

\* C24: every pgClient operation releases the connection it acquired exactly
\* once on every outcome, success or error: one connection is checked out
\* while an operation is between its connect and its release, and none when no
\* operation is running.
C24_ClientReleased ==
  poolOut = IF req.pc \in HoldingPcs THEN 1 ELSE 0

\* deleteMultipleDocuments has returned early, no id being numeric, and the
\* route has answered
C24_Witness ==
  /\ req.kind = "deleteMany" /\ req.pc = "done" /\ resp.status = 200
  /\ Len(req.ids) > 0 /\ NumericIds(req.ids) = {}
  /\ poolOut = 0

----------------------------------------------------------------------------
(* Claims about uploads under one filename, checked under SpecUpload *)

\* a second upload with the filename of the first has been answered
SecondUploadAnswered ==
  /\ req.kind = "upload" /\ req.pc = "done" /\ resp.status = 200
  /\ req.firstUpload # NoUpload

----------------------------------------------------------------------------
(* Claims about processUploadedFile, checked under SpecFile *)

\* C25: whenever processUploadedFile is called with a path at which the temp
\* file exists, the temp file no longer exists when the call completes,
\* whether it returns a result or throws (empty file, unsupported type,
\* extraction failure, zero chunks); an error of the delete call itself is
\* set aside.
C25_TempFileRemoved ==
  (req.kind = "file" /\ req.pc = "done" /\ ~req.unlinkFailed) => ~req.tempFile

----------------------------------------------------------------------------
(* Claims about RAGChat, checked under SpecChat *)

\* C28: at most one ask request of RAGChat is in flight at any time, no
\* further askQuestion call being started while loading is true, so that the
\* displayed response always belongs to the last submitted question.
C28_OneAskInFlight ==
  /\ Cardinality(ragChat.inFlight) <= 1
  /\ ragChat.response # NoAnswer => ragChat.response.id = ragChat.submitted

----------------------------------------------------------------------------
(* Claims about DocumentManager, checked under SpecManager *)

\* C29: once a delete request has succeeded and the document was removed from
\* the displayed list, the document is not displayed again unless it is
\* stored again, also when a loadDocuments request started before the delete
\* completes after it.
C29_DeletedStaysGone ==
  ~documentManager.loading =>
    \A id \in documentManager.removed \cap documentManager.documents :
      \E d \in documents : d.id = id

----------------------------------------------------------------------------
(* Claims about FileUpload, checked under SpecFileUpload *)

\* C30: the success message (uploadResult) and the error message of
\* FileUpload are never both non-empty, and uploading is false whenever no
\* upload request is in flight, after any sequence of file selections,
\* client-side rejections and upload outcomes.
C30_OneMessage ==
  /\ ~(fileUpload.uploadResult # "" /\ fileUpload.error # "")
  /\ ~fileUpload.inFlight => ~fileUpload.uploading

====
